---------------------------- MODULE Spec2Model ----------------------------
(***************************************************************************)
(* Model of the agent-os tool-execution engine: src/agent.cpp (the unified *)
(* agent) and src/code-agent.cpp (the coding agent).  Both programs keep   *)
(* the same globals (context, active_project_dir, failed_commands), so     *)
(* one set of variables serves both; a run is a session of one of the two  *)
(* programs, fixed by pool.program.  Texts are TLA+ strings; positions are *)
(* 0-based as in std::string and npos is -1, which is what size_t          *)
(* arithmetic on npos gives modulo 2^64 (npos + 1 = 0, npos + 6 = 5).      *)
(***************************************************************************)
EXTENDS Integers, Sequences, FiniteSets, TLC

VARIABLES
    pc,                 \* where the session loop stands
    context,            \* byte length of the file-context string
    conversation_history, \* agent.cpp: the roles of the messages kept, oldest first
    history,            \* code-agent.cpp: byte length of the history string
    active_project_dir, \* ProjectRoot override, "" when unset
    failed_commands,    \* std::map<std::string,int>: command |-> failure count
    fs,                 \* regular files of the machine: canonical path |-> bytes
    dirs,               \* directories of the machine (canonical paths)
    window_counter,     \* agent.cpp: counter naming the next GUI temp file
    turn,               \* loop variable of the running multi-turn loop
    calls,              \* model calls made for the input being handled
    last_response,      \* the model's reply processed last, "" before the first
    tool_output,        \* tool-output buffer of the last processed response
    had_changes,        \* code-agent.cpp: !changes.empty() for the last processed response
    log,                \* collaborator calls made while processing the last response
    printed,            \* the last notice the session loop printed
    display,            \* agent.cpp: response text being stripped for display
    tagi,               \* agent.cpp: index of the tag the strip loop is at
    complete,           \* code-agent.cpp: analysis_complete
    nread,              \* inputs read so far
    last_input,         \* the input being handled (the last one read)
    pool,               \* the scenario of this run: the replies and inputs it draws from
    fifo,               \* agent.cpp: the bytes written to the FIFO and not yet read
    kids,               \* agent.cpp: viewer child |-> "none", "running", "zombie", "reaped"
    sigpending,         \* agent.cpp: SIGCHLD is pending for the process
    handler,            \* agent.cpp: "idle", or "running" while sigchld_handler runs
    sysblock,           \* agent.cpp: SIGCHLD is held blocked by a system() call in progress
    given,              \* the text handed to a text function (a reply, a body, a string)
    got                 \* the text function applied last and what it returned

vars == <<pc, context, conversation_history, history, active_project_dir,
          failed_commands, fs, dirs,
          window_counter, turn, calls, last_response, tool_output, had_changes, log, printed,
          display, tagi, complete, nread, last_input, pool,
          fifo, kids, sigpending, handler, sysblock, given, got>>

\* the state of the viewer children and of the SIGCHLD handling, and the
\* text a text function is applied to: all of it left alone by the session
procs == <<kids, sigpending, handler, sysblock, given, got>>

---------------------------------------------------------------------------
(* std::string primitives *)

npos == -1

MinOf(S) == CHOOSE i \in S : \A j \in S : i <= j

MaxOf(S) == CHOOSE i \in S : \A j \in S : j <= i

\* s.find(pat, from)
Find(s, pat, from) ==
    LET c == {i \in from..(Len(s) - Len(pat)) : SubSeq(s, i + 1, i + Len(pat)) = pat}
    IN  IF c = {} THEN npos ELSE MinOf(c)

\* s.rfind(pat)
RFind(s, pat) ==
    LET c == {i \in 0..(Len(s) - Len(pat)) : SubSeq(s, i + 1, i + Len(pat)) = pat}
    IN  IF c = {} THEN npos ELSE MaxOf(c)

Contains(s, pat) == Find(s, pat, 0) # npos

\* s.substr(pos, n) for 0 <= pos <= size; a count that wrapped below zero is
\* a huge size_t and, like any count past the end, is clamped to the rest.
Substr(s, pos, n) ==
    IF n < 0 \/ pos + n > Len(s) THEN SubSeq(s, pos + 1, Len(s))
                                 ELSE SubSeq(s, pos + 1, pos + n)

\* s.erase(pos, n), the count clamped the same way
Erase(s, pos, n) ==
    IF n < 0 \/ pos + n > Len(s) THEN SubSeq(s, 1, pos)
                                 ELSE SubSeq(s, 1, pos) \o SubSeq(s, pos + n + 1, Len(s))

\* s.replace(pos, n, by)
Replace(s, pos, n, by) ==
    SubSeq(s, 1, pos) \o by \o SubSeq(s, pos + n + 1, Len(s))

RECURSIVE TrimLeft(_, _)
\* while (!s.empty() && s[0] is one of chars) s.erase(0, 1)
TrimLeft(s, chars) ==
    IF Len(s) > 0 /\ SubSeq(s, 1, 1) \in chars
    THEN TrimLeft(SubSeq(s, 2, Len(s)), chars) ELSE s

RECURSIVE TrimRight(_, _)
\* while (!s.empty() && s.back() is one of chars) s.pop_back()
TrimRight(s, chars) ==
    IF Len(s) > 0 /\ SubSeq(s, Len(s), Len(s)) \in chars
    THEN TrimRight(SubSeq(s, 1, Len(s) - 1), chars) ELSE s

---------------------------------------------------------------------------
(* Tag Extractor: agent.cpp *)

extract_tag_content(text, tag) ==
    LET open_tag == "<" \o tag
        close_tag == "</" \o tag \o ">"
        start == Find(text, open_tag, 0)
        content_start == Find(text, ">", start) + 1
        end == Find(text, close_tag, content_start)
    IN  IF start = npos THEN ""
        ELSE IF end = npos THEN ""
        ELSE Substr(text, content_start, end - content_start)

extract_attribute(text, tag, attr) ==
    LET start == Find(text, "<" \o tag, 0)
        tag_end == Find(text, ">", start)
        tag_content == Substr(text, start, tag_end - start)
        attr_start == Find(tag_content, attr \o "=\"", 0)
        from == attr_start + Len(attr) + 2
        attr_end == Find(tag_content, "\"", from)
    IN  IF start = npos THEN ""
        ELSE IF attr_start = npos THEN ""
        ELSE Substr(tag_content, from, attr_end - from)

\* One <change ...> block scanned from pos: the Change it yields.
ChangeAt(response, pos) ==
    LET file_start == Find(response, "file=\"", pos) + 6
        file_end == Find(response, "\"", file_start)
        desc_start == Find(response, "<description>", pos)
        desc_end == Find(response, "</description>", pos)
        old_start == Find(response, "<old>", pos)
        old_end == Find(response, "</old>", pos)
        new_start == Find(response, "<new>", pos)
        new_end == Find(response, "</new>", pos)
        nl == {"\n"}
    IN  [file |-> Substr(response, file_start, file_end - file_start),
         description |-> IF desc_start # npos /\ desc_end # npos
                         THEN Substr(response, desc_start + 13, desc_end - desc_start - 13)
                         ELSE "",
         old_text |-> TrimRight(TrimLeft(
                         IF old_start # npos /\ old_end # npos
                         THEN Substr(response, old_start + 5, old_end - old_start - 5)
                         ELSE "", nl), nl),
         new_text |-> TrimRight(TrimLeft(
                         IF new_start # npos /\ new_end # npos
                         THEN Substr(response, new_start + 5, new_end - new_start - 5)
                         ELSE "", nl), nl)]

RECURSIVE ParseChangesFrom(_, _)
ParseChangesFrom(response, from) ==
    LET pos == Find(response, "<change", from)
        c == ChangeAt(response, pos)
        here == IF c.file # "" THEN <<c>> ELSE <<>>
        close == Find(response, "</change>", pos)
    IN  IF pos = npos THEN <<>>
        ELSE IF close = npos THEN here
        ELSE here \o ParseChangesFrom(response, close + 1)

parse_changes(response) == ParseChangesFrom(response, 0)

---------------------------------------------------------------------------
(* The machine the executors act on.  A machine m is a record:             *)
(*   fs, dirs       the files and directories                              *)
(*   failed         failed_commands                                        *)
(*   context        byte length of the context string                      *)
(*   project        active_project_dir                                     *)
(*   wc             window_counter                                         *)
(*   complete       analysis_complete                                      *)
(*   result         the tool-output buffer being built                     *)
(*   log            collaborator calls so far (popen, zenity, fork)        *)
(*   nsh            popen calls so far while processing this response      *)
(*   ret            value returned by the last executor                    *)
(* An oracle o is what the outside world answers while one response is     *)
(* processed: o.sh[i] is the outcome of the i-th popen, o.confirm the      *)
(* answer of the confirmation dialog.                                      *)

DEFAULT_WORKSPACE == "/root/workspace"

RECURSIVE Components(_)
\* the components of a path between its slashes, left to right
Components(p) ==
    LET s == Find(p, "/", 0)
    IN  IF s = npos THEN (IF p = "" THEN <<>> ELSE <<p>>)
        ELSE (IF s = 0 THEN <<>> ELSE <<Substr(p, 0, s)>>)
             \o Components(Substr(p, s + 1, Len(p)))

RECURSIVE Resolve(_, _)
\* kernel path walk without symbolic links: ".." leaves a directory, "." stays
Resolve(comps, stack) ==
    IF comps = <<>> THEN stack
    ELSE LET c == Head(comps)
         IN  Resolve(Tail(comps),
                     IF c = ".." THEN (IF stack = <<>> THEN stack
                                       ELSE SubSeq(stack, 1, Len(stack) - 1))
                     ELSE IF c = "." THEN stack
                     ELSE Append(stack, c))

RECURSIVE Join(_)
Join(stack) ==
    IF stack = <<>> THEN "" ELSE "/" \o Head(stack) \o Join(Tail(stack))

\* the canonical name of a path (the working directory is taken to be "/")
Canon(path) ==
    LET j == Join(Resolve(Components(path), <<>>))
    IN  IF j = "" THEN "/" ELSE j

Exists(m, path) == Canon(path) \in DOMAIN m.fs \/ Canon(path) \in m.dirs

\* realpath(3): the canonical name when the path exists, otherwise failure
realpath_ok(m, path) == path # "" /\ Exists(m, path)

get_effective_workspace(project) ==
    IF project = "" THEN DEFAULT_WORKSPACE ELSE project

is_in_workspace(m, path) ==
    IF realpath_ok(m, path) THEN Find(Canon(path), get_effective_workspace(m.project), 0) = 0
    ELSE Find(path, get_effective_workspace(m.project), 0) = 0

\* the directories "mkdir -p dir" leaves in existence
MkdirP(m, dir) ==
    LET comps == Resolve(Components(dir), <<>>)
    IN  m.dirs \cup {Join(SubSeq(comps, 1, k)) : k \in 1..Len(comps)}

\* std::ofstream file(path); file << content : FALSE when the open fails
CanOpenForWrite(m, path) ==
    LET c == Canon(path)
        parent == Canon(path \o "/..")
    IN  path # "" /\ c \notin m.dirs /\ parent \in m.dirs

PutFile(m, path, content) ==
    LET c == Canon(path)
    IN  [m EXCEPT !.fs = [q \in DOMAIN m.fs \cup {c} |->
                              IF q = c THEN content ELSE m.fs[q]]]

\* create_parent_dirs: TRUE (mkdir -p of an absolute parent succeeds) and the
\* machine after it
create_parent_dirs(m, path) ==
    LET last_slash == RFind(path, "/")
        parent == Substr(path, 0, last_slash)
    IN  IF last_slash = npos \/ parent = "" THEN m
        ELSE [m EXCEPT !.dirs = MkdirP(m, parent)]

---------------------------------------------------------------------------
(* What a shell started by popen can answer: no pipe at all, or an exit    *)
(* status and the combined stdout+stderr.  The commands of the model do    *)
(* not change the files of the machine.                                    *)

ShellOutcomes ==
    { [pipe |-> TRUE,  status |-> 0, out |-> "ok\n"],
      [pipe |-> TRUE,  status |-> 1, out |-> ""],
      [pipe |-> TRUE,  status |-> 0, out |-> "ls: No such file or directory\n"],
      [pipe |-> FALSE, status |-> 0, out |-> ""] }

\* code-agent.cpp also reads "not found" and "Error" in the output as failures
CodeShellOutcomes ==
    ShellOutcomes \cup { [pipe |-> TRUE, status |-> 0, out |-> "Error: not found\n"] }

Count(f, c) == IF c \in DOMAIN f THEN f[c] ELSE 0

\* failed_commands[cmd] of std::map: the entry, created as 0 when missing
Touch(f, c) == IF c \in DOMAIN f THEN f ELSE f @@ (c :> 0)

Logged(m, op, arg) == [m EXCEPT !.log = Append(@, [op |-> op, arg |-> arg])]

Ret(m, v) == [m EXCEPT !.ret = v]

OUTPUT_CAP == 8000

Truncated(result) ==
    IF Len(result) > OUTPUT_CAP
    THEN Substr(result, 0, OUTPUT_CAP) \o "\n[Output truncated...]"
    ELSE result

---------------------------------------------------------------------------
(* Action Executors: agent.cpp *)

AGENT_MAX_FILE_SIZE == 8000

\* the bytes read from an open file, cut at the cap
AgentCapped(content) ==
    IF Len(content) > AGENT_MAX_FILE_SIZE
    THEN Substr(content, 0, AGENT_MAX_FILE_SIZE) \o "\n[... truncated ...]"
    ELSE content

\* a directory opens for reading and yields no bytes
ReadAt(m, path, c) ==
    IF path # "" /\ c \in DOMAIN m.fs THEN AgentCapped(m.fs[c])
    ELSE IF path # "" /\ c \in m.dirs THEN ""
    ELSE "[Error] Cannot read file: " \o path

agent_read_file(m, path) == ReadAt(m, path, Canon(path))

\* std::ofstream file(path); if (!file.is_open()) return false; file << content; return true
WriteOpened(m1, path, content) ==
    IF ~CanOpenForWrite(m1, path) THEN Ret(m1, FALSE)
    ELSE Ret(PutFile(m1, path, content), TRUE)

agent_write_file(m, path, content) ==
    WriteOpened(create_parent_dirs(m, path), path, content)

\* the part of edit_file after content = read_file(path)
EditRead(m, path, old_text, new_text, content) ==
    IF Find(content, "[Error]", 0) = 0 THEN Ret(m, FALSE)
    ELSE IF Find(content, old_text, 0) = npos THEN Ret(m, FALSE)
    ELSE agent_write_file(m, path,
             Replace(content, Find(content, old_text, 0), Len(old_text), new_text))

edit_file(m, path, old_text, new_text) ==
    EditRead(m, path, old_text, new_text, agent_read_file(m, path))

\* popen((cmd + " 2>&1").c_str(), "r") has been called
Spawned(m, cmd) == [Logged(m, "popen", cmd \o " 2>&1") EXCEPT !.nsh = @ + 1]

\* What the shell of popen can answer in agent.cpp, where main installs
\* sigchld_handler (lines 38-41, 646-650): reaped tells that the handler's
\* waitpid(-1) collected the shell before pclose's waitpid did.
AgentShellOutcomes ==
    { [pipe |-> r.pipe, status |-> r.status, out |-> r.out, reaped |-> FALSE] :
          r \in ShellOutcomes }
    \cup { [pipe |-> TRUE, status |-> 0, out |-> "ok\n", reaped |-> TRUE] }

\* int status = pclose(pipe): -1 (ECHILD) when the child is already reaped
pclose_status(r) == IF r.reaped THEN -1 ELSE r.status

\* lines 262-279, the shell answering r; m0 is the machine after line 258
AgentShell(m0, cmd, r) ==
    IF ~r.pipe THEN Ret(Spawned(m0, cmd), "[Error] Failed to run command")
    ELSE IF pclose_status(r) # 0 \/ Contains(r.out, "No such file")
    THEN Ret([Spawned(m0, cmd) EXCEPT !.failed[cmd] = @ + 1], Truncated(r.out))
    ELSE Ret(Spawned(m0, cmd), Truncated(r.out))

\* AgentGate with the threshold one failure later: the variant C1 rules out
AgentGate_ThirdFailure(m0, o, cmd) ==
    IF m0.failed[cmd] >= 3
    THEN Ret(m0, "[Error: Command failed multiple times, skipping]")
    ELSE AgentShell(m0, cmd, o.sh[m0.nsh + 1])

AgentGate(m0, o, cmd) ==
    IF m0.failed[cmd] >= 2
    THEN Ret(m0, "[Error: Command failed multiple times, skipping]")
    ELSE AgentShell(m0, cmd, o.sh[m0.nsh + 1])

agent_run_command(m, o, cmd) ==
    AgentGate([m EXCEPT !.failed = Touch(@, cmd)], o, cmd)

\* a listing counted under the command without its quotes: the variant C39
\* rules out
agent_list_directory_Unquoted(m, o, path) ==
    agent_run_command(m, o, "ls -la " \o path)

agent_list_directory(m, o, path) ==
    agent_run_command(m, o, "ls -la \"" \o path \o "\"")

\* the files and directories left once "rm -rf path" has run
Under(q, c) == q = c \/ Find(q, c \o "/", 0) = 0

RemoveTree(m, c) ==
    [m EXCEPT !.fs = [q \in {x \in DOMAIN m.fs : ~Under(x, c)} |-> m.fs[q]],
              !.dirs = {d \in m.dirs : ~Under(d, c)}]

Unlink(m, c) == [m EXCEPT !.fs = [q \in DOMAIN m.fs \ {c} |-> m.fs[q]]]

\* a delete that removes whatever the dialog answers: the variant C20 rules out
DeleteAsked_Unconfirmed(m1, o, c) ==
    IF c \in m1.dirs THEN Ret(RemoveTree(m1, c), TRUE)
    ELSE Ret(Unlink(m1, c), TRUE)

\* lines 297-301: the dialog is asked, then the path c is removed
DeleteAsked(m1, o, c) ==
    IF ~o.confirm THEN Ret(m1, FALSE)
    ELSE IF c \in m1.dirs THEN Ret(RemoveTree(m1, c), TRUE)
    ELSE Ret(Unlink(m1, c), TRUE)

delete_path(m, o, path) ==
    IF ~Exists(m, path) THEN Ret(m, FALSE)
    ELSE DeleteAsked(Logged(m, "zenity", path), o, Canon(path))

GuiFile(wc) == "/tmp/agent-ui-" \o ToString(wc) \o ".html"

show_gui(m, html) ==
    Logged(agent_write_file([m EXCEPT !.wc = @ + 1], GuiFile(m.wc), html),
           "fork", GuiFile(m.wc))

open_url(m, url) == Logged(m, "fork", url)

\* the part of apply_change after content = read_file(change.file)
AgentChangeRead(m, change, content) ==
    IF change.old_text = "" THEN agent_write_file(m, change.file, change.new_text)
    ELSE EditRead(m, change.file, change.old_text, change.new_text, content)

agent_apply_change(m, change) ==
    AgentChangeRead(m, change, agent_read_file(m, change.file))

---------------------------------------------------------------------------
(* Turn Controller: agent.cpp process_tools.  agent_directives is the scan *)
(* of the response (which directives, in which order), agent_execute the   *)
(* execution of one of them; process_tools runs them one after another.    *)

RECURSIVE ScanAll(_, _, _, _)
\* pos = 0; while ((pos = response.find(open, pos)) != npos) { end = find(close, pos);
\*   if (end == npos) break; take substr(pos + |open|, end - pos - |open|); pos = end + |close|; }
ScanAll(response, open, close, from) ==
    LET pos == Find(response, open, from)
        end == Find(response, close, pos)
    IN  IF pos = npos THEN <<>>
        ELSE IF end = npos THEN <<>>
        ELSE <<Substr(response, pos + Len(open), end - pos - Len(open))>>
             \o ScanAll(response, open, close, end + Len(close))

Each(kind, args) == [i \in 1..Len(args) |-> [kind |-> kind, arg |-> args[i]]]

agent_directives(response) ==
    LET rpath == extract_attribute(response, "read", "path")
        cpath == extract_attribute(response, "create", "path")
        epath == extract_attribute(response, "edit", "path")
        edit_block == extract_tag_content(response, "edit")
        old_text == extract_tag_content(edit_block, "old")
        new_text == extract_tag_content(edit_block, "new")
        html == extract_tag_content(response, "gui")
        url == extract_tag_content(response, "url")
        dpath == extract_attribute(response, "delete", "path")
    IN  IF Contains(response, "<read") /\ rpath # ""
        THEN <<[kind |-> "readattr", arg |-> rpath]>>
        ELSE Each("list", ScanAll(response, "<list>", "</list>", 0))
          \o Each("read", ScanAll(response, "<read>", "</read>", 0))
          \o Each("run", ScanAll(response, "<run>", "</run>", 0))
          \o (IF Contains(response, "<create") /\ cpath # ""
              THEN <<[kind |-> "create", arg |-> cpath,
                      content |-> extract_tag_content(response, "create")]>>
              ELSE <<>>)
          \o (IF Contains(response, "<edit") /\ epath # "" /\ old_text # ""
              THEN <<[kind |-> "edit", arg |-> epath, old_text |-> old_text,
                      new_text |-> new_text]>>
              ELSE <<>>)
          \o (IF Contains(response, "<gui>") /\ html # ""
              THEN <<[kind |-> "gui", arg |-> html]>> ELSE <<>>)
          \o (IF Contains(response, "<url>") /\ url # ""
              THEN <<[kind |-> "url", arg |-> url]>> ELSE <<>>)
          \o (IF Contains(response, "<delete") /\ dpath # ""
              THEN <<[kind |-> "delete", arg |-> dpath]>> ELSE <<>>)
          \o Each("change", parse_changes(response))

\* result += text
Out(m, text) == [m EXCEPT !.result = @ \o text]

\* context += "\n--- " + path + " ---\n" + content + "\n"
AddContext(m, path, content) ==
    [m EXCEPT !.context = @ + Len("\n--- ") + Len(path) + Len(" ---\n") + Len(content) + Len("\n")]

\* result += ok text or error text, by what the executor returned
Report(m1, okText, errText) == IF m1.ret THEN Out(m1, okText) ELSE Out(m1, errText)

\* result += head + (what the executor returned) + "\n"
Quote(m1, head) == Out(m1, head \o m1.ret \o "\n")

ReadAttrDone(m, path, content) ==
    Out(AddContext(m, path, content), "[Read " \o path \o "]\n" \o content \o "\n")

ReadBareDone(m, path, content) ==
    Out(IF Find(content, "[Error]", 0) # 0 THEN AddContext(m, path, content) ELSE m,
        "File " \o path \o " loaded\n")

agent_execute(m, o, d) ==
    CASE d.kind = "readattr" -> ReadAttrDone(m, d.arg, agent_read_file(m, d.arg))
      [] d.kind = "list" ->
           Quote(agent_list_directory(m, o, d.arg), "Directory " \o d.arg \o ":\n")
      [] d.kind = "read" -> ReadBareDone(m, d.arg, agent_read_file(m, d.arg))
      [] d.kind = "run" -> Quote(agent_run_command(m, o, d.arg), "$ " \o d.arg \o "\n")
      [] d.kind = "create" ->
           Report(agent_write_file(m, d.arg, d.content),
                  "[Created " \o d.arg \o "]\n", "[Error creating " \o d.arg \o "]\n")
      [] d.kind = "edit" ->
           Report(edit_file(m, d.arg, d.old_text, d.new_text),
                  "[Edited " \o d.arg \o "]\n", "[Error editing " \o d.arg \o "]\n")
      [] d.kind = "gui" -> show_gui(m, d.arg)
      [] d.kind = "url" -> Out(open_url(m, d.arg), "[Opening " \o d.arg \o "]\n")
      [] d.kind = "delete" ->
           Report(delete_path(m, o, d.arg),
                  "[Deleted " \o d.arg \o "]\n", "[Delete cancelled/failed: " \o d.arg \o "]\n")
      [] d.kind = "change" ->
           Report(agent_apply_change(m, d.arg), "[Applied change to " \o d.arg.file \o "]\n", "")

RECURSIVE AgentRun(_, _, _)
AgentRun(m, o, ds) ==
    IF ds = <<>> THEN m ELSE AgentRun(agent_execute(m, o, Head(ds)), o, Tail(ds))

---------------------------------------------------------------------------
(* Action Executors: code-agent.cpp *)

CODE_MAX_FILE_SIZE == 4000

CodeCapped(content) ==
    IF Len(content) > CODE_MAX_FILE_SIZE
    THEN Substr(content, 0, CODE_MAX_FILE_SIZE) \o "\n[... truncated, "
         \o ToString(Len(content) - CODE_MAX_FILE_SIZE) \o " more bytes ...]"
    ELSE content

CodeReadAt(m, path, c) ==
    IF path = "" \/ c \notin DOMAIN m.fs THEN "" ELSE CodeCapped(m.fs[c])

code_read_file(m, path) ==
    IF ~is_in_workspace(m, path) THEN "[Error: Path outside workspace]"
    ELSE CodeReadAt(m, path, Canon(path))

\* write_file without its guard: the variant C3 rules out
code_write_file_Unguarded(m, path, content) ==
    WriteOpened(create_parent_dirs(m, path), path, content)

code_write_file(m, path, content) ==
    IF ~is_in_workspace(m, path) THEN Ret(m, FALSE)
    ELSE WriteOpened(create_parent_dirs(m, path), path, content)

\* lines 234-244: the listing the ls just started answers; its status is not read
CodeListed(m1, r) ==
    IF ~r.pipe THEN Ret(m1, "[Error: Cannot list directory]") ELSE Ret(m1, r.out)

code_list_directory(m, o, path) ==
    IF ~is_in_workspace(m, path) THEN Ret(m, "[Error: Path outside workspace]")
    ELSE CodeListed([Logged(m, "popen", "ls -la \"" \o path \o "\" 2>&1") EXCEPT !.nsh = @ + 1],
                    o.sh[m.nsh + 1])

DenyList == {"rm -rf", "sudo", "chmod", "chown", "dd ", "> /"}

Denied(cmd) == \E pat \in DenyList : Contains(cmd, pat)

\* lines 267-288, the shell answering r; m0 is the machine after line 263
CodeShell(m0, cmd, r) ==
    IF ~r.pipe THEN Ret(Spawned(m0, cmd), "[Error: Cannot execute command]")
    ELSE IF r.status # 0 \/ Contains(r.out, "No such file")
            \/ Contains(r.out, "not found") \/ Contains(r.out, "Error")
    THEN Ret([Spawned(m0, cmd) EXCEPT !.failed[cmd] = @ + 1], Truncated(r.out))
    ELSE Ret(Spawned(m0, cmd), Truncated(r.out))

CodeGate(m0, o, cmd) ==
    IF m0.failed[cmd] >= 2
    THEN Ret(m0, "[Error: Command failed multiple times, skipping to prevent loop]")
    ELSE CodeShell(m0, cmd, o.sh[m0.nsh + 1])

\* run_command consulting the FailureTracker before the deny list: the
\* variant C4 rules out
code_run_command_TrackerFirst(m, o, cmd) ==
    IF Denied(cmd)
    THEN Ret([m EXCEPT !.failed = Touch(@, cmd)],
             "[Error: Command not allowed for security reasons]")
    ELSE CodeGate([m EXCEPT !.failed = Touch(@, cmd)], o, cmd)

code_run_command(m, o, cmd) ==
    IF Denied(cmd) THEN Ret(m, "[Error: Command not allowed for security reasons]")
    ELSE CodeGate([m EXCEPT !.failed = Touch(@, cmd)], o, cmd)

\* the part of apply_change after content = read_file(change.file)
CodeChangeRead(m, change, content) ==
    IF content = "" /\ change.old_text # "" THEN Ret(m, FALSE)
    ELSE IF change.old_text = "" THEN code_write_file(m, change.file, change.new_text)
    ELSE IF Find(content, change.old_text, 0) = npos THEN Ret(m, FALSE)
    ELSE code_write_file(m, change.file,
             Replace(content, Find(content, change.old_text, 0),
                     Len(change.old_text), change.new_text))

code_apply_change(m, change) ==
    CodeChangeRead(m, change, code_read_file(m, change.file))

---------------------------------------------------------------------------
(* Turn Controller: code-agent.cpp.  The three loops of main scan a        *)
(* response in their own order: the first chat turn (lines 786-846), a     *)
(* continuation turn (868-917) and an /analyze turn (673-733).             *)

code_directives(response, phase) ==
    CASE phase = "first" ->
              Each("run", ScanAll(response, "<run>", "</run>", 0))
           \o Each("list", ScanAll(response, "<list>", "</list>", 0))
           \o Each("read", ScanAll(response, "<read>", "</read>", 0))
           \o Each("change", parse_changes(response))
      [] phase = "cont" ->
              Each("list", ScanAll(response, "<list>", "</list>", 0))
           \o Each("read", ScanAll(response, "<read>", "</read>", 0))
           \o Each("run", ScanAll(response, "<run>", "</run>", 0))
           \o Each("change", parse_changes(response))
      [] phase = "analyze" ->
              Each("run", ScanAll(response, "<run>", "</run>", 0))
           \o Each("list", ScanAll(response, "<list>", "</list>", 0))
           \o Each("read", ScanAll(response, "<read>", "</read>", 0))
           \o Each("change", parse_changes(response))

\* the text a loop puts before a command's output, a listing, a loaded file
RunHead(phase, cmd) ==
    CASE phase = "first" -> "Command: " \o cmd \o "\nOutput:\n"
      [] phase = "cont" -> "Command " \o cmd \o ":\n"
      [] phase = "analyze" -> "Command: " \o cmd \o "\nOutput:\n"

ListHead(phase, path) ==
    CASE phase = "first" -> "Directory listing of " \o path \o ":\n"
      [] phase = "cont" -> "Directory " \o path \o ":\n"
      [] phase = "analyze" -> "Directory: " \o path \o "\n"

ReadNote(phase, path) ==
    CASE phase = "first" -> "File content added to context: " \o path \o "\n"
      [] phase = "cont" -> "Read: " \o path \o "\n"
      [] phase = "analyze" -> "Read file: " \o path \o "\n"

CodeReadDone(m, path, content, note) ==
    IF content # "" /\ Find(content, "[Error", 0) # 0
    THEN Out(AddContext(m, path, content), note) ELSE m

\* lines 719-726: a change naming ANALYSIS.md completes the analysis when it applies
AnalysisChange(m1) == IF m1.ret THEN [m1 EXCEPT !.complete = TRUE] ELSE m1

code_execute(m, o, d, phase) ==
    CASE d.kind = "run" -> Quote(code_run_command(m, o, d.arg), RunHead(phase, d.arg))
      [] d.kind = "list" -> Quote(code_list_directory(m, o, d.arg), ListHead(phase, d.arg))
      [] d.kind = "read" ->
           CodeReadDone(m, d.arg, code_read_file(m, d.arg), ReadNote(phase, d.arg))
      [] d.kind = "change" ->
           IF phase = "analyze" /\ Contains(d.arg.file, "ANALYSIS.md")
           THEN AnalysisChange(code_apply_change(m, d.arg))
           ELSE code_apply_change(m, d.arg)

RECURSIVE CodeRun(_, _, _, _)
CodeRun(m, o, ds, phase) ==
    IF ds = <<>> THEN m
    ELSE CodeRun(code_execute(m, o, Head(ds), phase), o, Tail(ds), phase)

---------------------------------------------------------------------------
(* Bounds and the sampled environment *)

MaxInputs == 3

MaxWindows == 1

\* viewer children spawned in a run
MaxKids == 3

\* bytes the FIFO holds at most before a writer waits
MaxFifo == 12

\* A run draws the model's replies and the operator's inputs from one scenario.
AgentScenarios ==
    { [program |-> "agent.cpp",
       replies |-> {"Done.", "<run>ls</run>", "<read"},
       inputs  |-> {"hello", "clear"}],
      [program |-> "agent.cpp",
       replies |-> {"Done.", "<run>rm -rf /</run>"},
       inputs  |-> {"hello", "Forget Context now"}],
      [program |-> "agent.cpp",
       replies |-> {"<run>ls</run> then <run>ls</run>", "All <run>done"},
       inputs  |-> {"hello", "[PROJECT: /proj] reset", "exit"}],
      [program |-> "agent.cpp",
       replies |-> {"Done.",
                    "<create path=\"/tmp/y\">hi</create>",
                    "<edit path=\"/tmp/x\"><old>secret</old><new>public</new></edit>",
                    "<delete path=\"/tmp/x\"/>"},
       inputs  |-> {"hello"}],
      [program |-> "agent.cpp",
       replies |-> {"<change file=\"/tmp/x\">\n<old>secret</old>\n<new>leak</new>\n</change>",
                    "<edit path=\"/root/workspace/a\"><old>foo</old><new>bar</new></edit>",
                    "<change file=\"/proj/n\"><old></old><new>x</new></change>"},
       inputs  |-> {"[PROJECT: /proj] go", "project /tmp", "project"}],
      [program |-> "agent.cpp",
       replies |-> {"<read path=\"/root/workspace/a\"/>",
                    "<read>/root/workspace/a</read><run>ls</run>"},
       inputs  |-> {"hello"}],
      [program |-> "agent.cpp",
       replies |-> {"Done.", "<gui><b>hi</b></gui><url>http://h</url>",
                    "<list>/root/workspace</list>"},
       inputs  |-> {"hello", "reset"}] }

RECURSIVE Doubled(_, _)
\* s repeated 2^k times
Doubled(s, k) == IF k = 0 THEN s ELSE Doubled(s \o s, k - 1)

\* a file longer than the read cap of either program: 8196 bytes
BigFile == "foo " \o Doubled("0123456789abcdef", 9)

\* Sessions of agent.cpp on a disk that also holds the files of "files".
AgentFileScenarios ==
    { [program |-> "agent.cpp",
       files   |-> ("/root/workspace/big" :> BigFile),
       replies |-> {"<read path=\"/root/workspace/big\"/>",
                    "<edit path=\"/root/workspace/big\"><old>foo</old><new>bar</new></edit>"},
       inputs  |-> {"hello"}],
      [program |-> "agent.cpp",
       files   |-> ("/root/workspace/big" :> BigFile),
       replies |-> {"<change file=\"/root/workspace/big\"><old>[... truncated</old><new>x</new></change>",
                    "<edit path=\"/root/workspace/a\"><old></old><new>x</new></edit>"},
       inputs  |-> {"hello"}],
      [program |-> "agent.cpp",
       files   |-> ("/root/workspace/c" :> "old"),
       replies |-> {"<list></list>",
                    "<create path=\"/root/workspace/c\">hi"},
       inputs  |-> {"hello"}],
      [program |-> "agent.cpp",
       files   |-> <<>>,
       replies |-> {"<create path=\"/root/workspace/c\">hi</create>",
                    "<read path=\"/root/workspace/c\"/>"},
       inputs  |-> {"hello"}],
      [program |-> "agent.cpp",
       files   |-> <<>>,
       replies |-> {"<create path=\"/root/workspace/c\">see <read path=\"/root/workspace/a\"/></create>",
                    "<read path=\"/root/workspace/c\"/>"},
       inputs  |-> {"hello"}],
      [program |-> "agent.cpp",
       files   |-> <<>>,
       replies |-> {"<read path=\"/root/workspace/a\"/><run>ls</run>",
                    "<delete path=\"/nope\"/>"},
       inputs  |-> {"hello"}] }

\* Sessions of code-agent.cpp.
CodeScenarios ==
    { [program |-> "code-agent.cpp",
       replies |-> {"Done.", "<run>ls</run>"},
       inputs  |-> {"hello", "clear", "/clear"}],
      [program |-> "code-agent.cpp",
       replies |-> {"<run>sudo ls</run>", "<list>/tmp</list><read>/tmp/x</read>",
                    "<list>/root/workspace</list>"},
       inputs  |-> {"hello", "/file /tmp/x", "/file"}],
      [program |-> "code-agent.cpp",
       replies |-> {"<change file=\"/tmp/n/new\"><old></old><new>x</new></change>",
                    "<change file=\"/tmp/x\">\n<old>secret</old>\n<new>leak</new>\n</change>",
                    "<change file=\"/root/workspace/d/n\"><old></old><new>x</new></change>",
                    "<change file=\"/root/workspace/a\"><old>foo</old><new>bar</new></change>"},
       inputs  |-> {"hello", "/project /tmp", "/project"}],
      [program |-> "code-agent.cpp",
       replies |-> {"<run>ls</run>", "analysis finished",
                    "<change file=\"/root/workspace/ANALYSIS.md\"><old></old><new>r</new></change>",
                    "<change file=\"/tmp/ANALYSIS.md\"><old></old><new>r</new></change>"},
       inputs  |-> {"/analyze /root/workspace", "/analyze", "/analyze /tmp"}],
      [program |-> "code-agent.cpp",
       replies |-> {"Done.", "<read>/root/workspace/a</read>", "<run>rm -rf /</run>"},
       inputs  |-> {"[PROJECT: /tmp] hello", "Reset Context please", "/exit", "/bogus",
                    "/file /root/workspace/a"}] }

\* A session of agent.cpp with external writers on its FIFO.
AgentFifoScenarios ==
    { [program |-> "agent.cpp",
       lines   |-> {"clear", "hello"},
       replies |-> {"Done."},
       inputs  |-> {"hello"}] }

\* A session of agent.cpp whose replies list a missing directory, run the
\* command a listing runs, and run one that differs from it by its quotes.
AgentListScenarios ==
    { [program |-> "agent.cpp",
       replies |-> {"<list>/nodir</list>",
                    "<run>ls -la \"/nodir\"</run>", "<run>ls -la /nodir</run>"},
       inputs  |-> {"hello"}] }

\* Sessions of code-agent.cpp on a disk that also holds the files of "files",
\* and with /project commands.
CodeFileScenarios ==
    { [program |-> "code-agent.cpp",
       files   |-> ("/root/workspace/big" :> BigFile),
       replies |-> {"Done."},
       inputs  |-> {"/file /root/workspace/big", "hello"}],
      [program |-> "code-agent.cpp",
       replies |-> {"Done."},
       inputs  |-> {"/project /root/workspace/../../tmp", "/project /root/workspace2",
                    "/project /root/workspace/d", "/project /etc"}] }

CodeResponses == UNION {sc.replies : sc \in CodeScenarios \cup CodeFileScenarios} \cup {""}

AgentResponses ==
    UNION {sc.replies : sc \in AgentScenarios \cup AgentFileScenarios \cup AgentListScenarios}
    \cup {""}

InitFiles == ("/root/workspace/a" :> "foo baz") @@ ("/tmp/x" :> "secret")

InitDirs == {"/", "/root", "/root/workspace", "/tmp"}

Scenarios ==
    AgentScenarios \cup AgentFileScenarios \cup AgentFifoScenarios \cup AgentListScenarios
    \cup CodeScenarios \cup CodeFileScenarios

\* the lines the external writers of scenario sc write to the FIFO
FifoLines(sc) == IF "lines" \in DOMAIN sc THEN sc.lines ELSE {}

\* the files on disk when the session of scenario sc starts
DiskOf(sc) == IF "files" \in DOMAIN sc THEN sc.files @@ InitFiles ELSE InitFiles

---------------------------------------------------------------------------
(* Session Loop: agent.cpp main *)

UpperCase == "ABCDEFGHIJKLMNOPQRSTUVWXYZ"

LowerCase == "abcdefghijklmnopqrstuvwxyz"

RECURSIVE ToLower(_)
\* for (auto& c : s) c = tolower(c)
ToLower(s) ==
    IF s = "" THEN ""
    ELSE LET ch == SubSeq(s, 1, 1)
             k == Find(UpperCase, ch, 0)
         IN  (IF k = npos THEN ch ELSE SubSeq(LowerCase, k + 1, k + 1))
             \o ToLower(SubSeq(s, 2, Len(s)))

Blank == {" "}

BlankOrNewline == {" ", "\n"}

\* active_project_dir after check_project_context(input)
agent_check_project_context(project, input) ==
    LET pos == Find(input, "[PROJECT:", 0)
        start == pos + 9
        end == Find(input, "]", start)
    IN  IF pos # npos /\ end # npos
        THEN TrimRight(TrimLeft(Substr(input, start, end - start), Blank), Blank)
        ELSE project

agent_user_message(input) ==
    LET proj_end == Find(input, "]", 0)
    IN  TrimLeft(IF proj_end # npos /\ Contains(input, "[PROJECT:")
                 THEN Substr(input, proj_end + 1, Len(input))
                 ELSE input,
                 BlankOrNewline)

agent_should_clear(msg_lower) ==
    \/ msg_lower = "clear" \/ msg_lower = "reset" \/ msg_lower = "forget"
    \/ Contains(msg_lower, "forget context")
    \/ Contains(msg_lower, "clear context")
    \/ Contains(msg_lower, "reset context")
    \/ Contains(msg_lower, "forget everything")

agent_is_project_command(msg_lower) ==
    Substr(msg_lower, 0, 7) = "project" \/ Substr(msg_lower, 0, 8) = "/project"

\* the path argument of "project <path>"
agent_project_path(user_message) ==
    TrimLeft(Substr(user_message, Find(user_message, " ", 0) + 1, Len(user_message)), Blank)

AGENT_CONTEXT_CAP == 8000

AGENT_CONTEXT_KEEP == 6000

\* if (context.length() > 8000) context = context.substr(context.length() - 6000)
agent_trim_context(len) == IF len > AGENT_CONTEXT_CAP THEN AGENT_CONTEXT_KEEP ELSE len

AGENT_HISTORY_CAP == 20

\* a trim that erases one message, once: the variant C34 rules out
agent_push_history_EraseOnce(h) ==
    LET h2 == h \o <<"user", "assistant">>
    IN  IF Len(h2) > AGENT_HISTORY_CAP THEN Tail(h2) ELSE h2

\* conversation_history after a call of query_llm_chat that found a content field
agent_push_history(h) ==
    LET h2 == h \o <<"user", "assistant">>
    IN  IF Len(h2) > AGENT_HISTORY_CAP
        THEN SubSeq(h2, Len(h2) - AGENT_HISTORY_CAP + 1, Len(h2)) ELSE h2

AGENT_MAX_TURNS == 10

AgentPlan == [r \in AgentResponses |-> agent_directives(r)]

Machine == [fs |-> fs, dirs |-> dirs, failed |-> failed_commands, context |-> context,
            project |-> active_project_dir, wc |-> window_counter, complete |-> complete,
            log |-> <<>>, nsh |-> 0, ret |-> "", result |-> ""]

process_tools(m, o, response) == AgentRun(m, o, AgentPlan[response])

ShellCalls(ds) == Cardinality({i \in 1..Len(ds) : ds[i].kind \in {"list", "run"}})

OraclesFor(ds) ==
    [sh : [1..ShellCalls(ds) -> AgentShellOutcomes],
     confirm : IF \E i \in 1..Len(ds) : ds[i].kind = "delete" THEN BOOLEAN ELSE {FALSE}]

SessionInit ==
    /\ pool \in Scenarios
    /\ pc = "input"
    /\ context = 0
    /\ conversation_history = <<>>
    /\ history = 0
    /\ active_project_dir = ""
    /\ failed_commands = <<>>
    /\ fs = DiskOf(pool)
    /\ dirs = InitDirs
    /\ window_counter = 0
    /\ turn = 0
    /\ calls = 0
    /\ last_response = ""
    /\ tool_output = ""
    /\ had_changes = FALSE
    /\ log = <<>>
    /\ printed = ""
    /\ display = ""
    /\ tagi = 0
    /\ complete = FALSE
    /\ nread = 0
    /\ last_input = ""
    /\ fifo = ""
    /\ kids = [i \in 1..MaxKids |-> "none"]
    /\ sigpending = FALSE
    /\ handler = "idle"
    /\ sysblock = FALSE

\* before any text function is applied
NoResult == [fn |-> "", value |-> <<>>]

Init == SessionInit /\ given = "" /\ got = NoResult

\* a clear that keeps the FailureTracker: the variant C6 rules out
agent_clear_KeepsTracker ==
    /\ conversation_history' = <<>>
    /\ context' = 0
    /\ active_project_dir' = ""
    /\ UNCHANGED failed_commands
    /\ log' = <<[op |-> "system", arg |-> "rm -f /root/agent-logs/*.json"]>>
    /\ printed' = "[Context cleared]"
    /\ pc' = "input"

\* lines 712-720
agent_clear ==
    /\ conversation_history' = <<>>
    /\ context' = 0
    /\ active_project_dir' = ""
    /\ failed_commands' = <<>>
    /\ log' = <<[op |-> "system", arg |-> "rm -f /root/agent-logs/*.json"]>>
    /\ printed' = "[Context cleared]"
    /\ pc' = "input"

\* One input unit read and classified (lines 667-747).
AgentReadInput(input) ==
    LET project == agent_check_project_context(active_project_dir, input)
        user_message == agent_user_message(input)
        msg_lower == ToLower(user_message)
        path == agent_project_path(user_message)
    IN  /\ pool.program = "agent.cpp"
        /\ pc = "input"
        /\ nread < MaxInputs
        /\ nread' = nread + 1
        /\ last_input' = input
        /\ calls' = 0
        /\ last_response' = ""
        /\ tool_output' = ""
        /\ turn' = -1
        /\ UNCHANGED <<fs, dirs, window_counter, had_changes, display, tagi, complete,
                       history, pool, procs>>
        /\ IF input = "exit" \/ input = "quit"
           THEN /\ pc' = "exit"
                /\ printed' = "Goodbye!"
                /\ log' = <<>>
                /\ UNCHANGED <<context, conversation_history, active_project_dir, failed_commands>>
           ELSE IF agent_should_clear(msg_lower)
           THEN agent_clear
           ELSE IF agent_is_project_command(msg_lower)
           THEN /\ pc' = "input"
                /\ log' = <<>>
                /\ IF path # "" /\ path # user_message
                   THEN /\ active_project_dir' = path
                        /\ printed' = "Project set: " \o path
                   ELSE /\ active_project_dir' = project
                        /\ printed' = IF project = "" THEN "No project set. Say 'project /path/to/dir'"
                                      ELSE "Current project: " \o project
                /\ UNCHANGED <<context, conversation_history, failed_commands>>
           ELSE /\ pc' = "await"
                /\ active_project_dir' = project
                /\ printed' = "[Thinking...]"
                /\ log' = <<>>
                /\ UNCHANGED <<context, conversation_history, failed_commands>>

FIFO_BUFFER == 4096

\* read(fifo_fd, buffer, sizeof(buffer) - 1): the bytes one read takes from
\* the pipe, and the bytes it leaves there
FifoTaken(bytes) == Substr(bytes, 0, FIFO_BUFFER - 1)

FifoLeft(bytes) == Substr(bytes, Len(FifoTaken(bytes)), Len(bytes))

\* lines 61-65: the bytes of one read, without one trailing line feed
FifoUnit(taken) ==
    IF Len(taken) > 0 /\ Substr(taken, Len(taken) - 1, 1) = "\n"
    THEN Substr(taken, 0, Len(taken) - 1)
    ELSE taken

check_fifo_input(bytes) == FifoUnit(FifoTaken(bytes))

\* An external writer (the voice widget) writes one line to the FIFO.
FifoWrite(line) ==
    /\ pool.program = "agent.cpp"
    /\ pc \in {"input", "await", "strip"}
    /\ Len(fifo) + Len(line) + 1 <= MaxFifo
    /\ fifo' = fifo \o line \o "\n"
    /\ UNCHANGED <<pc, context, conversation_history, history, active_project_dir,
                   failed_commands, fs, dirs, window_counter, turn, calls, last_response,
                   tool_output, had_changes, log, printed, display, tagi, complete, nread,
                   last_input, pool, procs>>

\* lines 670-682: the poll of the FIFO gave nothing, the input is read from
\* the terminal or from standard input
AgentReadsStdin(input) ==
    /\ check_fifo_input(fifo) = ""
    /\ fifo' = FifoLeft(fifo)
    /\ AgentReadInput(input)

\* lines 670-673: the poll of the FIFO gave the input
AgentPollFifo ==
    /\ check_fifo_input(fifo) # ""
    /\ fifo' = FifoLeft(fifo)
    /\ AgentReadInput(check_fifo_input(fifo))

\* Loop control of lines 750-792 once process_tools has returned machine m.
AgentAfter(m, reply, ok) ==
    /\ calls' = calls + 1
    /\ last_response' = reply
    /\ conversation_history' = IF ok THEN agent_push_history(conversation_history)
                               ELSE conversation_history
    /\ fs' = m.fs
    /\ dirs' = m.dirs
    /\ failed_commands' = m.failed
    /\ window_counter' = m.wc
    /\ log' = m.log
    /\ tool_output' = m.result
    /\ UNCHANGED <<active_project_dir, had_changes, complete, nread, last_input,
                   history, pool, fifo, procs>>
    /\ IF turn = -1
       THEN IF m.result # ""
            THEN /\ turn' = 0
                 /\ pc' = "await"
                 /\ printed' = "[Thinking... turn " \o ToString(2) \o "]"
                 /\ context' = m.context
                 /\ UNCHANGED <<display, tagi>>
            ELSE /\ printed' = reply
                 /\ pc' = "input"
                 /\ context' = agent_trim_context(m.context)
                 /\ UNCHANGED <<turn, display, tagi>>
       ELSE IF m.result = ""
            THEN /\ pc' = "strip"
                 /\ display' = reply
                 /\ tagi' = 1
                 /\ context' = m.context
                 /\ UNCHANGED <<turn, printed>>
            ELSE IF turn + 1 < AGENT_MAX_TURNS
            THEN /\ turn' = turn + 1
                 /\ pc' = "await"
                 /\ printed' = "[Thinking... turn " \o ToString(turn + 3) \o "]"
                 /\ context' = m.context
                 /\ UNCHANGED <<display, tagi>>
            ELSE /\ turn' = turn + 1
                 /\ pc' = "input"
                 /\ context' = agent_trim_context(m.context)
                 /\ UNCHANGED <<display, tagi, printed>>

\* The model's reply to the pending call arrives and is processed
\* (query_llm_chat, process_tools and the loop control of lines 747-792).
\* ok = FALSE is a call that yields no content field: response is "".
AgentReply(reply, o, ok) ==
    /\ pool.program = "agent.cpp"
    /\ pc = "await"
    /\ (Contains(reply, "<gui>") => window_counter < MaxWindows)
    /\ AgentAfter(process_tools(Machine, o, reply), reply, ok)

AgentModelReplies ==
    /\ pool.program = "agent.cpp"
    /\ \E reply \in pool.replies : \E o \in OraclesFor(AgentPlan[reply]) :
           AgentReply(reply, o, TRUE)

AgentModelFails ==
    \E o \in OraclesFor(AgentPlan[""]) : AgentReply("", o, FALSE)

StripTags == <<"<read", "<list>", "<run>", "<gui>", "<url>", "<create", "<edit", "<delete", "<change">>

\* the tag the for loop of line 767 stops at next: the first from i on that
\* occurs in display, 0 when none is left
NextTag(d, i) ==
    LET c == {j \in i..Len(StripTags) : Contains(d, StripTags[j])}
    IN  IF c = {} THEN 0 ELSE MinOf(c)

\* one pass of the while loop body of lines 769-778; slash is display[e-1] == '/'
StripAt(d, p2, e, close, ce, slash) ==
    IF slash THEN Erase(d, p2, e - p2 + 1)
    ELSE IF ce # npos THEN Erase(d, p2, ce - p2 + Len(close))
    ELSE Erase(d, p2, e - p2 + 1)

CloseOf(tag) == "</" \o Substr(tag, 1, Len(tag)) \o ">"

StripOnce(d, tag, slash) ==
    StripAt(d, Find(d, tag, 0), Find(d, ">", Find(d, tag, 0)), CloseOf(tag),
            Find(d, CloseOf(tag), Find(d, tag, 0)), slash)

\* display[e-1] == '/': with e == npos the read is out of bounds and may give
\* either answer
SlashBefore(d, tag) ==
    LET e == Find(d, ">", Find(d, tag, 0))
    IN  IF e = npos THEN BOOLEAN ELSE {SubSeq(d, e, e) = "/"}

\* One pass of the display-stripping loop, or its end (lines 765-783, 792).
AgentStrip ==
    LET j == NextTag(display, tagi)
        shown == TrimRight(TrimLeft(display, BlankOrNewline), BlankOrNewline)
    IN  /\ pc = "strip"
        /\ UNCHANGED <<conversation_history, history, active_project_dir, failed_commands,
                       fs, dirs, window_counter, turn, calls, last_response, tool_output,
                       had_changes, log, complete, nread, last_input, pool, fifo, procs>>
        /\ IF j = 0
           THEN /\ display' = shown
                /\ printed' = IF shown # "" THEN shown ELSE printed
                /\ tagi' = 0
                /\ pc' = "input"
                /\ context' = agent_trim_context(context)
           ELSE /\ \E slash \in SlashBefore(display, StripTags[j]) :
                       display' = StripOnce(display, StripTags[j], slash)
                /\ tagi' = j
                /\ UNCHANGED <<pc, printed, context>>

---------------------------------------------------------------------------
(* Session Loop: code-agent.cpp main *)

\* one of the two formats of check_project_context: the text from start up
\* to the terminator, blanks trimmed; the directory is kept when either the
\* marker or the terminator is missing
ProjectField(project, input, pos, start, end) ==
    IF pos # npos /\ end # npos
    THEN TrimLeft(TrimRight(Substr(input, start, end - start), Blank), Blank)
    ELSE project

code_check_project_context(project, input) ==
    LET pos1 == Find(input, "CURRENT PROJECT:", 0)
        p1 == ProjectField(project, input, pos1, pos1 + 17, Find(input, "\n", pos1 + 17))
        pos2 == Find(input, "[PROJECT:", 0)
    IN  ProjectField(p1, input, pos2, pos2 + 9, Find(input, "]", pos2 + 9))

code_user_message(input) ==
    LET ctx_end == Find(input, "=== END PROJECT CONTEXT ===", 0)
        um1 == IF ctx_end # npos THEN Substr(input, ctx_end + 27, Len(input)) ELSE input
        proj_end == Find(input, "]", 0)
        after_tag == Substr(input, proj_end + 1, Len(input))
        um2 == IF proj_end # npos /\ Contains(input, "[PROJECT:") /\ Len(after_tag) < Len(um1)
               THEN after_tag ELSE um1
    IN  TrimRight(TrimLeft(um2, BlankOrNewline), BlankOrNewline)

code_should_clear(msg_lower) ==
    \/ msg_lower \in {"forget", "reset", "clear", "clear context", "forget context",
                      "reset context", "forget everything"}
    \/ Find(msg_lower, "forget", 0) = 0 /\ Contains(msg_lower, "context")
    \/ Find(msg_lower, "clear", 0) = 0 /\ Contains(msg_lower, "context")
    \/ Find(msg_lower, "reset", 0) = 0 /\ Contains(msg_lower, "context")

CODE_MAX_TURNS == 10

ANALYZE_MAX_TURNS == 20

CODE_HISTORY_CAP == 2000

CODE_HISTORY_KEEP == 1500

CODE_CONTEXT_CAP == 4000

CODE_CONTEXT_KEEP == 3000

code_trim_history(len) == IF len > CODE_HISTORY_CAP THEN CODE_HISTORY_KEEP ELSE len

code_trim_context(len) == IF len > CODE_CONTEXT_CAP THEN CODE_CONTEXT_KEEP ELSE len

CodePlan ==
    [r \in CodeResponses |->
        [phase \in {"first", "cont", "analyze"} |-> code_directives(r, phase)]]

CodeOraclesFor(ds) == [sh : [1..ShellCalls(ds) -> CodeShellOutcomes], confirm : {FALSE}]

HasChanges(ds) == \E i \in 1..Len(ds) : ds[i].kind = "change"

\* lines 562-569 and 577-584
code_clear ==
    /\ context' = 0
    /\ history' = 0
    /\ active_project_dir' = ""
    /\ log' = <<[op |-> "system", arg |-> "rm -f /root/agent-logs/coding-history.json"],
                [op |-> "system", arg |-> "rm -f /root/agent-logs/main-history.json"]>>
    /\ printed' = "Context and logs cleared."
    /\ pc' = "input"
    /\ UNCHANGED <<failed_commands, turn, complete>>

\* lines 587-605, project being active_project_dir after line 516
code_project_command(project, path) ==
    /\ pc' = "input"
    /\ log' = <<>>
    /\ UNCHANGED <<context, history, failed_commands, turn, complete>>
    /\ IF path = ""
       THEN /\ active_project_dir' = project
            /\ printed' = IF project = "" THEN "No project set. Use: /project <path>"
                          ELSE "Current project: " \o project
       ELSE IF is_in_workspace([Machine EXCEPT !.project = project], path)
               \/ Find(path, "/root/workspace", 0) = 0
       THEN /\ active_project_dir' = path
            /\ printed' = "Project set to: " \o path
       ELSE /\ active_project_dir' = project
            /\ printed' = "Project must be in /root/workspace"

\* lines 611-618, content being read_file(path)
FileLoaded(path, content) ==
    /\ pc' = "input"
    /\ log' = <<>>
    /\ UNCHANGED <<history, failed_commands, turn, complete>>
    /\ IF content = ""
       THEN /\ printed' = "Cannot read: " \o path
            /\ UNCHANGED context
       ELSE /\ printed' = "Loaded: " \o path \o " (" \o ToString(Len(content)) \o " bytes)"
            /\ context' = AddContext(Machine, path, content).context

\* lines 607-619; input.substr(6) throws std::out_of_range when the input is
\* exactly "/file", and nothing catches it
code_file_command(project, input) ==
    /\ active_project_dir' = project
    /\ IF Len(input) < 6
       THEN /\ pc' = "aborted"
            /\ log' = <<>>
            /\ printed' = "terminate called after throwing an instance of 'std::out_of_range'"
            /\ UNCHANGED <<context, history, failed_commands, turn, complete>>
       ELSE FileLoaded(TrimLeft(Substr(input, 6, Len(input)), Blank),
                       code_read_file([Machine EXCEPT !.project = project],
                                      TrimLeft(Substr(input, 6, Len(input)), Blank)))

\* lines 621-651: the checks and the reset that precede the analysis loop
code_analyze_command(project, path) ==
    /\ active_project_dir' = project
    /\ log' = <<>>
    /\ UNCHANGED <<failed_commands>>
    /\ IF path = ""
       THEN /\ printed' = "Usage: /analyze <path>"
            /\ pc' = "input"
            /\ UNCHANGED <<context, history, turn, complete>>
       ELSE IF ~is_in_workspace([Machine EXCEPT !.project = project], path)
       THEN /\ printed' = "Path must be in /root/workspace"
            /\ pc' = "input"
            /\ UNCHANGED <<context, history, turn, complete>>
       ELSE /\ context' = 0
            /\ history' = 0
            /\ turn' = 0
            /\ complete' = FALSE
            /\ printed' = "[Turn " \o ToString(1) \o " - Analyzing...]"
            /\ pc' = "analyze"

\* lines 573-770: an input that starts with '/'
code_command(project, input) ==
    IF input = "/exit" \/ input = "/quit"
    THEN /\ pc' = "exit"
         /\ printed' = "Goodbye!"
         /\ active_project_dir' = project
         /\ log' = <<>>
         /\ UNCHANGED <<context, history, failed_commands, turn, complete>>
    ELSE IF input = "/clear" THEN code_clear
    ELSE IF Substr(input, 0, 8) = "/project"
    THEN code_project_command(project, TrimLeft(Substr(input, 8, Len(input)), Blank))
    ELSE IF Substr(input, 0, 5) = "/file" THEN code_file_command(project, input)
    ELSE IF Substr(input, 0, 8) = "/analyze"
    THEN code_analyze_command(project, TrimLeft(Substr(input, 8, Len(input)), Blank))
    ELSE /\ printed' = "Unknown command"
         /\ pc' = "input"
         /\ active_project_dir' = project
         /\ log' = <<>>
         /\ UNCHANGED <<context, history, failed_commands, turn, complete>>

\* One line read and classified (lines 509-780).
CodeReadInput(input) ==
    LET project == code_check_project_context(active_project_dir, input)
        msg_lower == ToLower(code_user_message(input))
    IN  /\ pool.program = "code-agent.cpp"
        /\ pc = "input"
        /\ nread < MaxInputs
        /\ nread' = nread + 1
        /\ last_input' = input
        /\ calls' = 0
        /\ last_response' = ""
        /\ tool_output' = ""
        /\ had_changes' = FALSE
        /\ UNCHANGED <<conversation_history, fs, dirs, window_counter, display, tagi, pool,
                       fifo, procs>>
        /\ IF code_should_clear(msg_lower) THEN code_clear
           ELSE IF Substr(input, 0, 1) = "/" THEN code_command(project, input)
           ELSE /\ pc' = "first"
                /\ active_project_dir' = project
                /\ printed' = "[Thinking...]"
                /\ log' = <<>>
                /\ turn' = 0
                /\ UNCHANGED <<context, history, failed_commands, complete>>

\* history += "User: " + input + "\nAssistant: " + text + "\n", then lines 947-949
code_push_history(len, input, text) ==
    code_trim_history(len + Len("User: ") + Len(input) + Len("\nAssistant: ") + Len(text)
                      + Len("\n"))

\* what every reply handler does with the machine the executors leave
CodeKeep(m, reply) ==
    /\ calls' = calls + 1
    /\ last_response' = reply
    /\ fs' = m.fs
    /\ dirs' = m.dirs
    /\ failed_commands' = m.failed
    /\ log' = m.log
    /\ tool_output' = m.result
    /\ UNCHANGED <<conversation_history, active_project_dir, window_counter, display, tagi,
                   nread, last_input, pool, fifo, procs>>

\* lines 780-846 and 938-952: the first reply of a chat exchange
CodeAfterFirst(m, reply, changed) ==
    /\ CodeKeep(m, reply)
    /\ had_changes' = changed
    /\ UNCHANGED <<turn, complete>>
    /\ IF m.result # ""
       THEN /\ pc' = "cont"
            /\ printed' = "[Thinking... turn " \o ToString(2) \o "]"
            /\ context' = m.context
            /\ UNCHANGED history
       ELSE /\ pc' = "input"
            /\ context' = code_trim_context(m.context)
            /\ IF ~changed
               THEN /\ printed' = reply
                    /\ history' = code_push_history(history, last_input, reply)
               ELSE /\ printed' = "Applied"
                    /\ history' = code_push_history(history, last_input, "[made code changes]")

\* lines 862-937 and 946-952: a reply inside the continuation loop
CodeAfterCont(m, reply, changed) ==
    /\ CodeKeep(m, reply)
    /\ had_changes' = changed
    /\ UNCHANGED complete
    /\ IF m.result = "" /\ ~changed
       THEN /\ printed' = reply
            /\ pc' = "input"
            /\ context' = code_trim_context(m.context)
            /\ history' = code_push_history(history, last_input, "[explored and processed]")
            /\ UNCHANGED turn
       ELSE IF turn + 1 < CODE_MAX_TURNS
       THEN /\ turn' = turn + 1
            /\ pc' = "cont"
            /\ printed' = "[Thinking... turn " \o ToString(turn + 3) \o "]"
            /\ context' = m.context
            /\ UNCHANGED history
       ELSE /\ turn' = turn + 1
            /\ pc' = "input"
            /\ context' = code_trim_context(m.context)
            /\ history' = code_push_history(history, last_input, "[explored and processed]")
            /\ UNCHANGED printed

\* lines 746-755: analysis_complete after a turn that used no tool
LooksComplete(reply) ==
    Contains(reply, "ANALYSIS.md") \/ Contains(reply, "complete")
    \/ Contains(reply, "finished")

\* an analysis loop that reports completion when it runs out of turns: the
\* variant C10 rules out
AnalyzeLoop_CompleteAtLimit(m, reply, done) ==
    /\ CodeKeep(m, reply)
    /\ complete' = done
    /\ context' = m.context
    /\ UNCHANGED history
    /\ IF done \/ turn + 1 >= ANALYZE_MAX_TURNS
       THEN /\ printed' = "ANALYSIS COMPLETE"
            /\ pc' = "input"
            /\ turn' = IF done THEN turn ELSE turn + 1
       ELSE /\ turn' = turn + 1
            /\ pc' = "analyze"
            /\ printed' = "[Turn " \o ToString(turn + 2) \o " - Analyzing...]"

\* lines 667-765: a reply inside the analysis loop; done is analysis_complete
\* at the end of the loop body
AnalyzeLoop(m, reply, done) ==
    /\ CodeKeep(m, reply)
    /\ complete' = done
    /\ context' = m.context
    /\ UNCHANGED history
    /\ IF done
       THEN /\ printed' = "ANALYSIS COMPLETE"
            /\ pc' = "input"
            /\ UNCHANGED turn
       ELSE IF turn + 1 < ANALYZE_MAX_TURNS
       THEN /\ turn' = turn + 1
            /\ pc' = "analyze"
            /\ printed' = "[Turn " \o ToString(turn + 2) \o " - Analyzing...]"
       ELSE /\ turn' = turn + 1
            /\ pc' = "input"
            /\ printed' = "Analysis reached turn limit. Check results."

CodeAfterAnalyze(m, reply, changed) ==
    /\ had_changes' = changed
    /\ AnalyzeLoop(m, reply, m.complete \/ (~changed /\ m.result = "" /\ LooksComplete(reply)))

\* The model's reply to the pending call of code-agent.cpp arrives and is
\* processed by the loop that made the call.
CodeReply(reply, o) ==
    /\ pool.program = "code-agent.cpp"
    /\ \/ /\ pc = "first"
          /\ CodeAfterFirst(CodeRun(Machine, o, CodePlan[reply]["first"], "first"),
                            reply, HasChanges(CodePlan[reply]["first"]))
       \/ /\ pc = "cont"
          /\ CodeAfterCont(CodeRun(Machine, o, CodePlan[reply]["cont"], "cont"),
                           reply, HasChanges(CodePlan[reply]["cont"]))
       \/ /\ pc = "analyze"
          /\ CodeAfterAnalyze(CodeRun(Machine, o, CodePlan[reply]["analyze"], "analyze"),
                              reply, HasChanges(CodePlan[reply]["analyze"]))

CodeModelReplies ==
    /\ pool.program = "code-agent.cpp"
    /\ \E reply \in pool.replies : \E o \in CodeOraclesFor(CodePlan[reply]["first"]) :
           CodeReply(reply, o)

\* the request fails and query_llm returns the empty body
CodeModelFails == CodeReply("", [sh |-> <<>>, confirm |-> FALSE])

Next ==
    \/ \E input \in pool.inputs : AgentReadsStdin(input)
    \/ AgentPollFifo
    \/ \E line \in FifoLines(pool) : FifoWrite(line)
    \/ AgentModelReplies
    \/ AgentModelFails
    \/ AgentStrip
    \/ \E input \in pool.inputs : CodeReadInput(input)
    \/ CodeModelReplies
    \/ CodeModelFails

Spec == Init /\ [][Next]_vars

---------------------------------------------------------------------------
(* Viewer children and SIGCHLD: agent.cpp show_gui / open_url, the handler *)
(* installed by main, and the system() calls that hold SIGCHLD blocked.    *)
(* agent.cpp has one thread: its own code takes no step while the handler  *)
(* runs, and none while a SIGCHLD is pending and deliverable.              *)

\* what the session loop holds, left alone by the children and the handler
session == <<pc, context, conversation_history, history, active_project_dir,
             failed_commands, fs, dirs, window_counter, turn, calls, last_response,
             tool_output, had_changes, log, printed, display, tagi, complete, nread,
             last_input, pool, fifo>>

\* the kernel is about to run the handler: SIGCHLD pending and not blocked
Deliverable == sigpending /\ handler = "idle" /\ ~sysblock

\* the program's own code is running
MainRuns == handler = "idle" /\ ~Deliverable

\* lines 310-314 and 319-323: fork() of a viewer
Spawn(i) ==
    /\ MainRuns /\ ~sysblock
    /\ kids[i] = "none"
    /\ kids' = [kids EXCEPT ![i] = "running"]
    /\ UNCHANGED <<session, given, got, sigpending, handler, sysblock>>

\* the viewer exits (or its execlp fails and it calls exit(1)): it becomes a
\* zombie and SIGCHLD is raised; a SIGCHLD already pending absorbs it
ChildExits(i) ==
    /\ kids[i] = "running"
    /\ kids' = [kids EXCEPT ![i] = "zombie"]
    /\ sigpending' = TRUE
    /\ UNCHANGED <<session, given, got, handler, sysblock>>

\* the kernel delivers SIGCHLD: sigchld_handler starts, SIGCHLD is blocked
\* while it runs (sa_mask empty, no SA_NODEFER: lines 646-650)
HandlerEnter ==
    /\ Deliverable
    /\ sigpending' = FALSE
    /\ handler' = "running"
    /\ UNCHANGED <<session, given, got, kids, sysblock>>

\* a handler that makes one waitpid call and returns: the variant C23 rules out
HandlerWait_Once ==
    /\ handler = "running"
    /\ handler' = "idle"
    /\ \/ \E i \in 1..MaxKids :
              kids[i] = "zombie" /\ kids' = [kids EXCEPT ![i] = "reaped"]
       \/ (\A i \in 1..MaxKids : kids[i] # "zombie") /\ UNCHANGED kids
    /\ UNCHANGED <<session, given, got, sigpending, sysblock>>

\* line 40: one pass of while (waitpid(-1, NULL, WNOHANG) > 0); a pass that
\* finds an exited child reaps it and loops, one that finds none returns
HandlerWait ==
    /\ handler = "running"
    /\ \/ /\ \E i \in 1..MaxKids :
                 kids[i] = "zombie" /\ kids' = [kids EXCEPT ![i] = "reaped"]
          /\ UNCHANGED handler
       \/ /\ \A i \in 1..MaxKids : kids[i] # "zombie"
          /\ handler' = "idle"
          /\ UNCHANGED kids
    /\ UNCHANGED <<session, given, got, sigpending, sysblock>>

\* system() is entered (create_parent_dirs 232, confirm_delete 291, the rm of
\* 299 and of 717): it blocks SIGCHLD until its own child has ended
SystemBegins ==
    /\ MainRuns /\ ~sysblock
    /\ sysblock' = TRUE
    /\ UNCHANGED <<session, given, got, kids, sigpending, handler>>

\* system() returns: it has waited for its own child, whose SIGCHLD is left
\* pending, and restores the signal mask
SystemEnds ==
    /\ sysblock
    /\ sysblock' = FALSE
    /\ sigpending' = TRUE
    /\ UNCHANGED <<session, given, got, kids, handler>>

\* a session of agent.cpp whose replies open viewers
ReapInit == Init /\ pool.program = "agent.cpp" /\ \E r \in pool.replies : Contains(r, "<gui>")

ReapNext ==
    \/ \E i \in 1..MaxKids : Spawn(i)
    \/ \E i \in 1..MaxKids : ChildExits(i)
    \/ HandlerEnter
    \/ HandlerWait
    \/ SystemBegins
    \/ SystemEnds

\* the kernel delivers a deliverable signal, the handler's code runs on, and
\* a system() call returns
ReapSpec ==
    /\ ReapInit
    /\ [][ReapNext]_vars
    /\ WF_vars(HandlerEnter)
    /\ WF_vars(HandlerWait)
    /\ WF_vars(SystemEnds)

---------------------------------------------------------------------------
(* The text functions applied to texts of their own: extract_tag_content,  *)
(* parse_changes, escape_json and the content scan of the model's answer.  *)

\* an escape_json that passes the backslash through: the variant C36 rules out
escape_char_PlainBackslash(c) ==
    CASE c = "\"" -> "\\\""
      [] c = "\n" -> "\\n"
      [] c = "\r" -> "\\r"
      [] c = "\t" -> "\\t"
      [] OTHER -> c

\* agent.cpp 103-110 (code-agent.cpp 40-47): the switch of escape_json
escape_char(c) ==
    CASE c = "\"" -> "\\\""
      [] c = "\\" -> "\\\\"
      [] c = "\n" -> "\\n"
      [] c = "\r" -> "\\r"
      [] c = "\t" -> "\\t"
      [] OTHER -> c

RECURSIVE escape_json(_)
escape_json(s) ==
    IF s = "" THEN "" ELSE escape_char(SubSeq(s, 1, 1)) \o escape_json(SubSeq(s, 2, Len(s)))

\* agent.cpp 180-185: the character an escape pair stands for
unescaped(c) ==
    CASE c = "n" -> "\n"
      [] c = "t" -> "\t"
      [] c = "r" -> "\r"
      [] OTHER -> c

RECURSIVE ScanFrom(_, _, _)
\* agent.cpp 178-193 (code-agent.cpp 107-123): the loop from index i on
ScanFrom(response, i, escape) ==
    IF i >= Len(response) THEN ""
    ELSE LET c == Substr(response, i, 1)
         IN  IF escape THEN unescaped(c) \o ScanFrom(response, i + 1, FALSE)
             ELSE IF c = "\\" THEN ScanFrom(response, i + 1, TRUE)
             ELSE IF c = "\"" THEN ""
             ELSE c \o ScanFrom(response, i + 1, FALSE)

\* agent.cpp 167-193: the content of the model's answer, "" without a
\* content field
scan_content(response) ==
    LET start == Find(response, "\"content\":\"", 0)
    IN  IF start = npos THEN "" ELSE ScanFrom(response, start + 11, FALSE)

\* the longest text, in pieces
MaxTokens == 3

RECURSIVE Cat(_)
Cat(pieces) == IF pieces = <<>> THEN "" ELSE Head(pieces) \o Cat(Tail(pieces))

\* every text of at most MaxTokens of the given pieces
TokenTexts(tokens) == {Cat(q) : q \in UNION {[1..n -> tokens] : n \in 0..MaxTokens}}

\* an edit block's <old> element whole, cut short, and inside a longer name
TagTokens == {"<old>", "</old>", "<old", "<older>", ">", "a"}

TagTexts == TokenTexts(TagTokens)

\* the most <change> blocks in one reply
MaxBlocks == 2

\* the parts a <change> block may have
Shapes == SUBSET {"file", "description", "old", "new"}

\* the k-th block of a reply, with the parts of shape and values of its own
Block(k, shape) ==
    LET n == ToString(k)
    IN  (IF "file" \in shape THEN "<change file=\"f" \o n \o "\">" ELSE "<change>")
        \o (IF "description" \in shape THEN "<description>d" \o n \o "</description>" ELSE "")
        \o (IF "old" \in shape THEN "<old>a" \o n \o "</old>" ELSE "")
        \o (IF "new" \in shape THEN "<new>b" \o n \o "</new>" ELSE "")
        \o "</change>"

ChangeTexts ==
    {Cat([k \in 1..Len(q) |-> Block(k, q[k])]) :
        q \in UNION {[1..n -> Shapes] : n \in 1..MaxBlocks}}

\* the characters escape_json and the scan treat apart, and two plain ones
JsonChars == {"\"", "\\", "\n", "\r", "\t", "n", "a"}

JsonTexts == TokenTexts(JsonChars)

Texts == TagTexts \cup ChangeTexts \cup JsonTexts

\* what a text function leaves alone
beside == <<session, kids, sigpending, handler, sysblock, given>>

\* process_tools 536: extract_tag_content(edit_block, "old")
ExtractsContent ==
    /\ given \in TagTexts
    /\ got' = [fn |-> "extract_tag_content", value |-> extract_tag_content(given, "old")]
    /\ UNCHANGED beside

\* process_tools 575 (code-agent.cpp 831): parse_changes(response)
ParsesChanges ==
    /\ given \in ChangeTexts
    /\ got' = [fn |-> "parse_changes", value |-> parse_changes(given)]
    /\ UNCHANGED beside

\* a message escaped into a request body (agent.cpp 133-141) and a body of
\* that form scanned as an answer (167-193)
EscapesThenScans ==
    /\ given \in JsonTexts
    /\ got' = [fn |-> "escape_json, scan",
               value |-> scan_content("\"content\":\"" \o escape_json(given) \o "\"")]
    /\ UNCHANGED beside

\* query_llm_chat 167-193: an answer whose content field holds the given bytes
ScansAnswer ==
    /\ given \in JsonTexts
    /\ got' = [fn |-> "scan", value |-> scan_content("{\"content\":\"" \o given)]
    /\ UNCHANGED beside

TextInit ==
    /\ SessionInit
    /\ pool.program = "agent.cpp" /\ pool.replies = {"Done."}
    /\ given \in Texts
    /\ got = NoResult

TextNext ==
    \/ ExtractsContent
    \/ ParsesChanges
    \/ EscapesThenScans
    \/ ScansAnswer

TextSpec == TextInit /\ [][TextNext]_vars

---------------------------------------------------------------------------
(* Properties *)

\* a step that processes a reply of the model
ReplyStep == pc \in {"await", "first", "cont", "analyze"} /\ calls' = calls + 1

\* the directives the processed reply was scanned into
StepPlan ==
    IF pool.program = "agent.cpp" THEN AgentPlan[last_response']
    ELSE CodePlan[last_response'][pc]

\* the commands of the <run> directives of a plan
RunsOf(ds) == {ds[i].arg : i \in {j \in 1..Len(ds) : ds[j].kind = "run"}}

\* popen was called for command c
Popened(l, c) == \E i \in 1..Len(l) : l[i] = [op |-> "popen", arg |-> c \o " 2>&1"]

\* what the loop at phase puts in the tool output for a blocked command c
BlockedText(phase, c) ==
    IF pool.program = "agent.cpp"
    THEN "$ " \o c \o "\n[Error: Command failed multiple times, skipping]\n"
    ELSE RunHead(phase, c)
         \o "[Error: Command failed multiple times, skipping to prevent loop]\n"

\* C1: in both programs, once a command string has two recorded failures,
\* every later reply that submits exactly that string gets the fixed
\* "failed multiple times" text for it, and no shell is started for it.
C1_BlockedAfterTwoFailures ==
    [][ReplyStep =>
          \A c \in DOMAIN failed_commands :
              failed_commands[c] >= 2 =>
                  /\ ~Popened(log', c)
                  /\ failed_commands'[c] = failed_commands[c]
                  /\ c \in RunsOf(StepPlan) => Contains(tool_output', BlockedText(pc, c))]_vars

\* C1 witness: a command with two recorded failures was submitted again and
\* answered with the fixed text, no shell having been started.
C1_Witness ==
    /\ "ls" \in DOMAIN failed_commands
    /\ failed_commands["ls"] = 2
    /\ last_response = "<run>ls</run>"
    /\ log = <<>>
    /\ Contains(tool_output, "[Error: Command failed multiple times, skipping")

\* the files named outside the active root, the GUI temp files apart
OutsideRoot(files) ==
    {p \in DOMAIN files :
        /\ Find(p, get_effective_workspace(active_project_dir), 0) # 0
        /\ Find(p, "/tmp/agent-ui-", 0) # 0}

\* C2: in agent.cpp a reply's Create, Edit, Change and Delete directives
\* leave every file outside the active project root as it was: none is
\* created, rewritten or removed.
C2_AgentMutationsStayInRoot ==
    [][(ReplyStep /\ pool.program = "agent.cpp") =>
          /\ OutsideRoot(fs') = OutsideRoot(fs)
          /\ \A p \in OutsideRoot(fs) : fs'[p] = fs[p]]_vars

\* paths the guard of code-agent.cpp is asked about
SamplePaths ==
    {"/tmp/x", "/tmp/n/new", "/tmp", "/root/workspace/../../tmp/x", "/etc/passwd", "a",
     "/root/workspace/a", "/root/workspace/d/n", "/root/workspace"}

NoShellOracle == [sh |-> <<>>, confirm |-> FALSE]

\* C3: in code-agent.cpp, for a path is_in_workspace rejects, write_file and
\* apply_change return false and leave files and directories as they were,
\* read_file returns the 'Path outside workspace' text and list_directory
\* returns it without starting ls; a reply whose changes all name rejected
\* paths changes no file and no directory, and no ls is started for a
\* rejected <list>.
C3_CodeGuardRejectsBeforeMutation ==
    /\ [](pool.program = "code-agent.cpp" =>
            \A p \in SamplePaths :
                ~is_in_workspace(Machine, p) =>
                    /\ code_write_file(Machine, p, "x") = Ret(Machine, FALSE)
                    /\ code_apply_change(Machine, [file |-> p, old_text |-> "",
                                                   new_text |-> "x", description |-> ""])
                           = Ret(Machine, FALSE)
                    /\ code_apply_change(Machine, [file |-> p, old_text |-> "secret",
                                                   new_text |-> "x", description |-> ""])
                           = Ret(Machine, FALSE)
                    /\ code_read_file(Machine, p) = "[Error: Path outside workspace]"
                    /\ code_list_directory(Machine, NoShellOracle, p)
                           = Ret(Machine, "[Error: Path outside workspace]"))
    /\ [][(ReplyStep /\ pool.program = "code-agent.cpp") =>
            /\ (\A i \in 1..Len(StepPlan) :
                    StepPlan[i].kind = "change" => ~is_in_workspace(Machine, StepPlan[i].arg.file))
               => (fs' = fs /\ dirs' = dirs)
            /\ \A i \in 1..Len(StepPlan) :
                    (StepPlan[i].kind = "list" /\ ~is_in_workspace(Machine, StepPlan[i].arg))
                    => \A k \in 1..Len(log') :
                           log'[k].arg # "ls -la \"" \o StepPlan[i].arg \o "\" 2>&1"]_vars

\* C3 witness: a change to a file outside the workspace was processed and the
\* file is as it was.
C3_Witness ==
    /\ pool.program = "code-agent.cpp"
    /\ last_response = "<change file=\"/tmp/x\">\n<old>secret</old>\n<new>leak</new>\n</change>"
    /\ had_changes
    /\ fs["/tmp/x"] = "secret"
    /\ pc = "input"

\* commands the deny list is asked about
SampleCommands == {"rm -rf /", "sudo ls", "chmod 777 a", "chown r a", "dd if=a", "ls > /x"}

\* C4: in code-agent.cpp a command holding a deny-list pattern returns the
\* 'not allowed for security reasons' text and changes nothing, the
\* FailureTracker included; a reply whose <run> commands are all denied
\* starts no process and leaves the FailureTracker as it was, and the text
\* is in the tool output.
C4_CodeDenyList ==
    /\ [](pool.program = "code-agent.cpp" =>
            \A c \in SampleCommands :
                code_run_command(Machine, NoShellOracle, c)
                    = Ret(Machine, "[Error: Command not allowed for security reasons]"))
    /\ [][(ReplyStep /\ pool.program = "code-agent.cpp") =>
            \A c \in RunsOf(StepPlan) :
                Denied(c) =>
                    /\ ~Popened(log', c)
                    /\ Contains(tool_output',
                           RunHead(pc, c) \o "[Error: Command not allowed for security reasons]\n")
                    /\ (\A d \in RunsOf(StepPlan) : Denied(d))
                          => failed_commands' = failed_commands]_vars

\* C4 witness: a denied command was submitted and refused.
C4_Witness ==
    /\ pool.program = "code-agent.cpp"
    /\ last_response = "<run>sudo ls</run>"
    /\ Contains(tool_output, "[Error: Command not allowed for security reasons]")
    /\ log = <<>>
    /\ failed_commands = <<>>

\* C5: in agent.cpp a <run> whose command holds a deny-list pattern (such as
\* 'rm -rf /') is refused: no shell is started for it and the tool output
\* carries a denial message instead of the command's output.
C5_AgentDenyList ==
    [][(ReplyStep /\ pool.program = "agent.cpp") =>
          \A c \in RunsOf(StepPlan) :
              Denied(c) => ~Popened(log', c) /\ Contains(tool_output', "not allowed")]_vars

\* the input being handled is a clear input of agent.cpp
AgentClearInput ==
    /\ last_input \notin {"exit", "quit"}
    /\ agent_should_clear(ToLower(agent_user_message(last_input)))

\* C6: in agent.cpp, when the loop is back at its prompt after a clear input,
\* the history, the context, the project override and the FailureTracker are
\* all empty, and handling the clear input made no model call and executed
\* no directive.
C6_AgentClearResetsAll ==
    (pool.program = "agent.cpp" /\ nread > 0 /\ AgentClearInput) =>
        /\ pc = "input"
        /\ conversation_history = <<>>
        /\ context = 0
        /\ active_project_dir = ""
        /\ failed_commands = <<>>
        /\ calls = 0
        /\ \A i \in 1..Len(log) : log[i].op = "system"
        /\ tool_output = ""
        /\ last_response = ""

\* C6 witness: a clear input that carried a project tag was handled after an
\* earlier exchange.
C6_Witness ==
    /\ pool.program = "agent.cpp"
    /\ last_input = "[PROJECT: /proj] reset"
    /\ nread >= 2
    /\ printed = "[Context cleared]"
    /\ active_project_dir = ""

\* the input being handled is a clear input of code-agent.cpp
CodeClearInput ==
    \/ code_should_clear(ToLower(code_user_message(last_input)))
    \/ last_input = "/clear"

\* C7: in code-agent.cpp, once a clear input has been handled, a command that
\* was blocked before is executed through the shell when it is submitted
\* next.
C7_CodeClearUnblocks ==
    (pool.program = "code-agent.cpp" /\ nread > 0 /\ pc = "input" /\ CodeClearInput) =>
        \A c \in DOMAIN failed_commands :
            \A r \in CodeShellOutcomes :
                Popened(code_run_command(Machine, [sh |-> <<r>>, confirm |-> FALSE], c).log, c)

\* the bound on model calls for the input being handled
CallBound ==
    IF pool.program = "agent.cpp" THEN 1 + AGENT_MAX_TURNS
    ELSE IF Substr(last_input, 0, 8) = "/analyze" THEN ANALYZE_MAX_TURNS
    ELSE 1 + CODE_MAX_TURNS

\* every pass of the display-stripping loop of agent.cpp that finds a tag
\* removes at least one byte, whatever the out-of-bounds read gives; a pass
\* that removes nothing finds the same tag again, for ever
StripShrinks ==
    LET j == NextTag(display, tagi)
    IN  j # 0 => \A slash \in SlashBefore(display, StripTags[j]) :
                    Len(StripOnce(display, StripTags[j], slash)) < Len(display)

\* C8: every exchange terminates, whatever the input and the replies: at
\* most 11 model calls are made for an input in agent.cpp and in a chat
\* exchange of code-agent.cpp, at most 20 in an /analyze, and the loop that
\* runs after the last call (the stripping of the reply for display) ends.
C8_ExchangeTerminates ==
    /\ calls <= CallBound
    /\ pc = "strip" => StripShrinks

\* the continuation loop has just used up its turns on a reply that still
\* produced tool output
ChatExhausted ==
    /\ pc = "input"
    /\ tool_output # ""
    /\ IF pool.program = "agent.cpp" THEN turn = AGENT_MAX_TURNS
       ELSE turn = CODE_MAX_TURNS /\ Substr(last_input, 0, 1) # "/"

\* C9: when the continuation loop of agent.cpp or of a code-agent.cpp chat
\* uses up its turns while tool output is still produced, the last thing the
\* loop prints reports that the turn limit was exceeded.
C9_TurnLimitReported ==
    ChatExhausted => (Contains(printed, "limit") \/ Contains(printed, "Limit"))

\* the /analyze loop of code-agent.cpp is running or has just ended
InAnalyze == pool.program = "code-agent.cpp" /\ Substr(last_input, 0, 8) = "/analyze"

\* C10: in /analyze of code-agent.cpp, as long as no turn completes the
\* analysis the loop goes on, one model call per turn; it ends incomplete
\* only after exactly 20 model calls, and then prints the turn-limit notice
\* and not 'ANALYSIS COMPLETE'.
C10_AnalyzeStopsAtTwenty ==
    InAnalyze =>
        /\ pc = "analyze" => (calls = turn /\ turn < ANALYZE_MAX_TURNS /\ ~complete)
        /\ (pc = "input" /\ calls > 0 /\ ~complete) =>
               /\ calls = 20
               /\ printed = "Analysis reached turn limit. Check results."
        /\ (pc = "input" /\ printed = "ANALYSIS COMPLETE") => complete

\* C10 witness: twenty turns that all produced tool output, none completing.
C10_Witness ==
    /\ InAnalyze
    /\ pc = "input"
    /\ calls = 20
    /\ tool_output # ""
    /\ ~complete
    /\ printed = "Analysis reached turn limit. Check results."


\* the replies that hold at least one <change> block
WithChangeBlock == {r \in AgentResponses \cup CodeResponses : parse_changes(r) # <<>>}

\* a chat turn (not /analyze) starts from here with turns left after it
ChatBudgetRemains ==
    \/ pc = "await" /\ (turn = -1 \/ turn + 1 < AGENT_MAX_TURNS)
    \/ pc = "first"
    \/ pc = "cont" /\ turn + 1 < CODE_MAX_TURNS

\* C11: a reply that holds at least one <change> block is never treated as
\* Done: while turn budget remains, processing it leads to another model
\* turn, whether or not the change applied and whatever else the reply holds.
C11_ChangeNeverDone ==
    [][(ReplyStep /\ ChatBudgetRemains /\ last_response' \in WithChangeBlock)
           => pc' \in {"await", "cont"}]_vars

\* the place of a directive kind in the scan priority
ScanRank(kind) ==
    CASE kind = "list" -> 1
      [] kind = "read" -> 2
      [] kind = "run" -> 3
      [] kind = "readattr" -> 4
      [] kind = "create" -> 5
      [] kind = "edit" -> 6
      [] kind = "gui" -> 7
      [] kind = "url" -> 8
      [] kind = "delete" -> 9
      [] kind = "change" -> 10

InScanPriority(ds) ==
    \A i \in 1..Len(ds) : \A j \in 1..Len(ds) :
        i < j => ScanRank(ds[i].kind) <= ScanRank(ds[j].kind)

\* the kinds of the complete directives, with their fields filled, found in r
KindsIn(r) ==
    {k \in {"list", "read", "run", "readattr", "create", "gui", "url", "delete", "change"} :
        CASE k = "list" -> ScanAll(r, "<list>", "</list>", 0) # <<>>
          [] k = "read" -> ScanAll(r, "<read>", "</read>", 0) # <<>>
          [] k = "run" -> ScanAll(r, "<run>", "</run>", 0) # <<>>
          [] k = "readattr" -> extract_attribute(r, "read", "path") # ""
          [] k = "create" -> extract_attribute(r, "create", "path") # ""
                             /\ Contains(r, "</create>")
          [] k = "gui" -> extract_tag_content(r, "gui") # ""
          [] k = "url" -> extract_tag_content(r, "url") # ""
          [] k = "delete" -> extract_attribute(r, "delete", "path") # ""
          [] k = "change" -> parse_changes(r) # <<>>}

\* the kinds a program supports
KindsOf(program) ==
    IF program = "agent.cpp"
    THEN {"list", "read", "run", "readattr", "create", "gui", "url", "delete", "change"}
    ELSE {"list", "read", "run", "change"}

PresentKinds == [r \in AgentResponses \cup CodeResponses |-> KindsIn(r)]

\* C12: on every chat turn of both programs the directives of the reply are
\* executed in the one scan priority List, bare Read, Run, attribute Read,
\* Create, Edit, Gui, Url, Delete, Change, and every directive kind present
\* in the reply (of those the program supports) is executed.
C12_FixedScanPriority ==
    [][(ReplyStep /\ pc \in {"await", "first", "cont"}) =>
           /\ InScanPriority(StepPlan)
           /\ \A k \in PresentKinds[last_response'] \cap KindsOf(pool.program) :
                  \E i \in 1..Len(StepPlan) : StepPlan[i].kind = k]_vars

\* the reply being processed by agent.cpp holds one directive, of this kind
AgentSole(kind) ==
    /\ ReplyStep
    /\ pool.program = "agent.cpp"
    /\ Len(StepPlan) = 1
    /\ StepPlan[1].kind = kind

\* content with its first occurrence of old_text replaced by new_text
FirstReplaced(content, old_text, new_text) ==
    Replace(content, Find(content, old_text, 0), Len(old_text), new_text)

\* C13: in agent.cpp an Edit of an existing file with a non-empty old text
\* that occurs in it leaves the file as the original with exactly the first
\* occurrence of old replaced by new, whatever the size of the file.
C13_EditReplacesFirstOccurrence ==
    [][(/\ AgentSole("edit")
        /\ Canon(StepPlan[1].arg) \in DOMAIN fs
        /\ StepPlan[1].old_text # ""
        /\ Contains(fs[Canon(StepPlan[1].arg)], StepPlan[1].old_text))
       => /\ Canon(StepPlan[1].arg) \in DOMAIN fs'
          /\ fs'[Canon(StepPlan[1].arg)] =
                 FirstReplaced(fs[Canon(StepPlan[1].arg)], StepPlan[1].old_text,
                               StepPlan[1].new_text)]_vars

\* the reply being processed holds one directive, a <change> block with a
\* non-empty old text that its target file does not hold (or no such file)
SoleMismatchingChange ==
    /\ ReplyStep
    /\ Len(StepPlan) = 1
    /\ StepPlan[1].kind = "change"
    /\ StepPlan[1].arg.old_text # ""
    /\ (Canon(StepPlan[1].arg.file) \in DOMAIN fs
          => ~Contains(fs[Canon(StepPlan[1].arg.file)], StepPlan[1].arg.old_text))

\* C14: in both programs a change whose non-empty old text does not occur in
\* the target file (or whose file cannot be read) fails and leaves every file
\* byte-identical, the first time and every later time it is applied.
C14_MismatchLeavesFile ==
    [][SoleMismatchingChange => (fs' = fs /\ ~Contains(tool_output', "[Applied change"))]_vars

\* the reply being processed by agent.cpp holds one directive, a <list>,
\* <read> or <run> whose path or command is empty
SoleEmptyField ==
    /\ ReplyStep
    /\ pool.program = "agent.cpp"
    /\ Len(StepPlan) = 1
    /\ StepPlan[1].kind \in {"list", "read", "run"}
    /\ StepPlan[1].arg = ""

\* C15: in agent.cpp a directive whose required field is empty is a no-op:
\* no process is spawned, no file or directory changes, and nothing is added
\* to the tool output.
C15_EmptyFieldIsNoOp ==
    [][SoleEmptyField =>
           (log' = <<>> /\ fs' = fs /\ dirs' = dirs /\ tool_output' = "")]_vars

\* the replies that hold an <edit> with a path and an empty old text
EmptyOldEdits ==
    {r \in AgentResponses :
        /\ Contains(r, "<edit")
        /\ extract_attribute(r, "edit", "path") # ""
        /\ Contains(r, "<old></old>")}

\* C16: in agent.cpp an <edit> with a non-empty path and an empty old text
\* is reported as an error in the tool output and leaves the file unchanged.
C16_EmptyOldIsError ==
    [][(ReplyStep /\ pool.program = "agent.cpp" /\ last_response' \in EmptyOldEdits)
           => (Contains(tool_output', "[Error") /\ fs' = fs)]_vars

\* the replies with an unterminated <create ...> (agent.cpp) or with a
\* <change> block whose <old> element is missing or unterminated
Malformed ==
    {r \in AgentResponses : Contains(r, "<create") /\ ~Contains(r, "</create>")}
    \cup {r \in AgentResponses \cup CodeResponses :
             Contains(r, "<change") /\ ~(Contains(r, "<old>") /\ Contains(r, "</old>"))}

\* C17: a malformed or unterminated directive is treated as absent: a reply
\* with an unterminated <create path="p"> (agent.cpp) or with a <change>
\* whose <old> is missing or unterminated (both programs) causes no file to
\* be written or overwritten.
C17_MalformedIsAbsent ==
    [][(ReplyStep /\ last_response' \in Malformed) => fs' = fs]_vars

\* the texts of a well-formed create and of a well-formed attribute read
CreateReply(path, content) == "<create path=\"" \o path \o "\">" \o content \o "</create>"

ReadReply(path) == "<read path=\"" \o path \o "\"/>"

\* paths and contents (within the read cap, without "</create>") of the
\* create directives the model may send
RoundTrips ==
    {x \in [path : {"/root/workspace/c", "/tmp/y"},
            content : {"hi", "see <read path=\"/root/workspace/a\"/>"}] :
        CreateReply(x.path, x.content) \in AgentResponses}

\* C18: in agent.cpp, when a reply <create path="P">content</create> is
\* followed by the reply <read path="P"/>, the read returns exactly content.
C18_CreateReadRoundTrip ==
    [][\A x \in RoundTrips :
          (/\ ReplyStep
           /\ pool.program = "agent.cpp"
           /\ last_response = CreateReply(x.path, x.content)
           /\ last_response' = ReadReply(x.path))
          => tool_output' = "[Read " \o x.path \o "]\n" \o x.content \o "\n"]_vars

\* what follows "[Read X]\n" in the tool output of an attribute read of
\* path, without the closing line feed
ReadBody(out, path) ==
    Substr(out, Len("[Read " \o path \o "]\n"),
           Len(out) - Len("[Read " \o path \o "]\n") - 1)

\* body is what the read of a file holding content is to return
ReadAsDocumented(body, content) ==
    IF Len(content) <= AGENT_MAX_FILE_SIZE THEN body = content
    ELSE /\ Substr(body, 0, AGENT_MAX_FILE_SIZE) = Substr(content, 0, AGENT_MAX_FILE_SIZE)
         /\ Contains(Substr(body, AGENT_MAX_FILE_SIZE, Len(body)),
                     ToString(Len(content) - AGENT_MAX_FILE_SIZE))

\* C19: in agent.cpp a well-formed <read path="X"/> of a file inside the
\* workspace returns the file's bytes when it has at most 8000 of them, and
\* otherwise its first 8000 bytes and a marker that states how many bytes
\* were left out (size minus 8000).
C19_ReadReturnsBytesOrCount ==
    [][(/\ AgentSole("readattr")
        /\ Canon(StepPlan[1].arg) \in DOMAIN fs
        /\ is_in_workspace(Machine, StepPlan[1].arg))
       => ReadAsDocumented(ReadBody(tool_output', StepPlan[1].arg),
                           fs[Canon(StepPlan[1].arg)])]_vars

\* paths handed to delete_path: a file, a directory, missing ones, one with ..
DeletePaths == {"/tmp/x", "/tmp", "/nope", "/root/workspace/../workspace/a"}

\* the dialog has been asked about path, once, and nothing else was called
AskedOnce(l, path) == l = <<[op |-> "zenity", arg |-> path]>>

\* the canonical names of the sample paths
DeleteCanon == [path \in DeletePaths |-> Canon(path)]

\* delete_path(m, o, path) returned r as the contract of delete_path
\* demands; there tells whether path (canonical name c) existed in m
DeleteContract(there, m, o, path, c, r) ==
    /\ ~there => (r.log = <<>> /\ r.ret = FALSE)
    /\ there => AskedOnce(r.log, path)
    /\ (there /\ ~o.confirm) => (r.ret = FALSE /\ c \in DOMAIN r.fs \cup r.dirs)
    /\ ~r.ret => (r.fs = m.fs /\ r.dirs = m.dirs)
    /\ (there /\ c \notin DOMAIN r.fs \cup r.dirs) => (o.confirm /\ r.ret = TRUE)

\* C20: delete_path of agent.cpp removes a path only after the dialog
\* confirmed that same request; for a missing path it asks nothing and
\* fails; when the dialog declines or is cancelled it fails and the path
\* still exists.  Stated of delete_path wherever agent.cpp is about to
\* process a reply, for both answers of the dialog.
C20_DeleteOnlyAfterConfirm ==
    (pool.program = "agent.cpp" /\ pc = "await") =>
        \A path \in DeletePaths : \A o \in [sh : {<<>>}, confirm : BOOLEAN] :
            DeleteContract(DeleteCanon[path] \in DOMAIN fs \cup dirs, Machine, o, path,
                           DeleteCanon[path], delete_path(Machine, o, path))

\* the dialog was asked about the file /tmp/x and declined: the file is kept
C20_Witness ==
    /\ pool.program = "agent.cpp"
    /\ last_response = "<delete path=\"/tmp/x\"/>"
    /\ AskedOnce(log, "/tmp/x")
    /\ tool_output = "[Delete cancelled/failed: /tmp/x]\n"
    /\ "/tmp/x" \in DOMAIN fs

\* the reply being processed holds one directive that is executed and fails:
\* a bare <read> of a file that does not exist, or a <change> with an old
\* text after which no file differs from before
SoleFailingDirective ==
    /\ ReplyStep
    /\ pc \in {"await", "first", "cont"}
    /\ Len(StepPlan) = 1
    /\ \/ StepPlan[1].kind = "read" /\ ~Exists(Machine, StepPlan[1].arg)
       \/ /\ StepPlan[1].kind = "change"
          /\ StepPlan[1].arg.old_text # ""
          /\ fs' = fs

\* out holds a text that tells of a failure
FailureText(out) ==
    \/ Contains(out, "rror")
    \/ Contains(out, "ailed")
    \/ Contains(out, "annot")
    \/ Contains(out, "not found")

\* C21: in both programs every directive that is executed and fails appends
\* failure text to the tool output of that turn, so that the next model turn
\* sees the failure.
C21_FailuresReachToolOutput ==
    [][SoleFailingDirective => FailureText(tool_output')]_vars

\* C22: no input line ends the session loop of code-agent.cpp other than
\* /exit or /quit: after any other input, the slash commands given without
\* an argument included, the loop is still running.
C22_OnlyExitEndsSession ==
    pool.program = "code-agent.cpp" =>
        /\ pc # "aborted"
        /\ pc = "exit" => last_input \in {"/exit", "/quit"}

\* run_command of the running program
RunCommand(m, o, cmd) ==
    IF pool.program = "agent.cpp" THEN agent_run_command(m, o, cmd)
    ELSE code_run_command(m, o, cmd)

\* the shell answers of a failing, a succeeding and a failing execution, and
\* of one more
FailOkFail ==
    IF pool.program = "agent.cpp"
    THEN [sh |-> << [pipe |-> TRUE, status |-> 1, out |-> "", reaped |-> FALSE],
                    [pipe |-> TRUE, status |-> 0, out |-> "ok\n", reaped |-> FALSE],
                    [pipe |-> TRUE, status |-> 1, out |-> "", reaped |-> FALSE],
                    [pipe |-> TRUE, status |-> 0, out |-> "ok\n", reaped |-> FALSE] >>,
          confirm |-> FALSE]
    ELSE [sh |-> << [pipe |-> TRUE, status |-> 1, out |-> ""],
                    [pipe |-> TRUE, status |-> 0, out |-> "ok\n"],
                    [pipe |-> TRUE, status |-> 1, out |-> ""],
                    [pipe |-> TRUE, status |-> 0, out |-> "ok\n"] >>,
          confirm |-> FALSE]

\* m after cmd has been submitted n times
RECURSIVE Submitted(_, _, _, _)
Submitted(m, o, cmd, n) ==
    IF n = 0 THEN m ELSE RunCommand(Submitted(m, o, cmd, n - 1), o, cmd)

\* C25: the FailureTracker counts consecutive failures: in both programs,
\* when a command with no recorded failure fails, succeeds and fails again,
\* its next submission is still executed.
C25_SuccessResetsCount ==
    (pc \in {"await", "first", "cont"} /\ Count(failed_commands, "ls") = 0) =>
        Len(Submitted(Machine, FailOkFail, "ls", 4).log) = 4

\* a shell that exits with status 0 and whose output has no 'No such file'
CleanExits ==
    {r \in AgentShellOutcomes : r.pipe /\ r.status = 0 /\ ~Contains(r.out, "No such file")}

\* C30: in agent.cpp, however the SIGCHLD handler interleaves with
\* run_command, a command whose shell exits with status 0 and whose output
\* has no 'No such file' does not have its failure count incremented.
C30_HandlerCannotFailSuccess ==
    (pool.program = "agent.cpp" /\ pc = "await" /\ Count(failed_commands, "ls") < 2) =>
        \A r \in CleanExits :
            agent_run_command(Machine, [sh |-> <<r>>, confirm |-> FALSE], "ls").failed["ls"]
                = Count(failed_commands, "ls")

\* code-agent.cpp handles one input line
CodeInputStep == pool.program = "code-agent.cpp" /\ pc = "input" /\ nread' = nread + 1

\* no command has a failure recorded in f
NoFailures(f) == \A c \in DOMAIN f : f[c] = 0

\* one of Context, History, ProjectRoot, FailureTracker held something and is
\* emptied by the step
SomeEmptied ==
    \/ context # 0 /\ context' = 0
    \/ history # 0 /\ history' = 0
    \/ active_project_dir # "" /\ active_project_dir' = ""
    \/ ~NoFailures(failed_commands) /\ NoFailures(failed_commands')

\* none of the four keeps what it held before the step
NoneKept ==
    /\ context # 0 => context' = 0
    /\ history # 0 => history' = 0
    /\ active_project_dir # "" => active_project_dir' = ""
    /\ ~NoFailures(failed_commands) => NoFailures(failed_commands')

\* C26: in code-agent.cpp Context, History, ProjectRoot and FailureTracker
\* are only reset together: no input empties one of them and leaves another
\* holding what it held before.
C26_ResetTogether ==
    [][(CodeInputStep /\ SomeEmptied) => NoneKept]_vars

\* the byte cap of the Context of the running program
ContextCap == IF pool.program = "agent.cpp" THEN AGENT_CONTEXT_CAP ELSE CODE_CONTEXT_CAP

\* C27: Context is within its cap (8000 bytes in agent.cpp, 4000 bytes in
\* code-agent.cpp) whenever a model call is pending and whenever the session
\* loop waits for its next input.
C27_ContextCapped ==
    pc \in {"input", "await", "first", "cont", "analyze"} => context <= ContextCap

\* C28: in both programs a model call that fails (query_llm or
\* query_llm_chat returns the empty text) ends the exchange: no further
\* model call is made for that input, in agent.cpp's loop, in
\* code-agent.cpp's chat loop and in its /analyze loop.
C28_FailedCallEndsExchange ==
    [][(ReplyStep /\ last_response' = "") => pc' \in {"input", "strip"}]_vars

\* text holds none of the opening tags of the directives and none of their
\* closing tags
NoMarkup(text) ==
    \A i \in 1..Len(StripTags) :
        ~Contains(text, StripTags[i]) /\ ~Contains(text, CloseOf(StripTags[i]))

\* the response text agent.cpp has shown for the exchange that has reached
\* Done: the reply itself when the first reply used no tool (line 789),
\* otherwise the display text left by the strip loop (781-783)
ShownAtDone == IF turn = -1 THEN printed ELSE display

\* C29: in agent.cpp, whenever an exchange reaches Done, the response text
\* shown to the operator holds no directive markup, opening or closing.
C29_DoneTextStripped ==
    (pool.program = "agent.cpp" /\ pc = "input" /\ calls > 0 /\ tool_output = "")
        => NoMarkup(ShownAtDone)

\* C23: in agent.cpp every viewer child that exits is eventually reaped by
\* the SIGCHLD handler, also when several children exit close together and
\* their signals coalesce into one.
C23_ExitedChildrenReaped ==
    \A i \in 1..MaxKids : (kids[i] = "zombie") ~> (kids[i] = "reaped")

\* two children have exited under one SIGCHLD, and the handler it started
\* has reaped one of them and is still running
C23_Witness ==
    /\ handler = "running"
    /\ ~sigpending
    /\ \E i \in 1..MaxKids : kids[i] = "reaped"
    /\ \E i \in 1..MaxKids : kids[i] = "zombie"

\* C24: in agent.cpp every line written to the FIFO is processed as its own
\* input unit, in the order written: a poll that takes an input from the
\* FIFO takes exactly the oldest unread line, and leaves the later ones.
C24_FifoLineIsUnit ==
    [][(pool.program = "agent.cpp" /\ pc = "input" /\ check_fifo_input(fifo) # ""
            /\ nread' = nread + 1)
        => (~Contains(last_input', "\n") /\ fifo = last_input' \o "\n" \o fifo')]_vars

\* the first complete opening tag of exactly this name: "<tag" followed at
\* once by ">" or by a blank and, later, a ">"
OpensAt(body, tag, i) ==
    /\ Substr(body, i, Len(tag) + 1) = "<" \o tag
    /\ Substr(body, i + Len(tag) + 1, 1) \in {">", " "}
    /\ Find(body, ">", i) # npos

FirstOpen(body, tag) ==
    LET c == {i \in 0..(Len(body) - Len(tag) - 2) : OpensAt(body, tag, i)}
    IN  IF c = {} THEN npos ELSE MinOf(c)

\* the content strictly between that tag's ">" and the next closing tag,
\* "" (absent) when there is no such opening tag or no closing tag after it
ContentAsDocumented(body, tag) ==
    LET p == FirstOpen(body, tag)
        cs == Find(body, ">", p) + 1
        e == Find(body, "</" \o tag \o ">", cs)
    IN  IF p = npos \/ e = npos THEN "" ELSE Substr(body, cs, e - cs)

\* C31: extract_tag_content(text, tag) returns exactly the text between the
\* ">" ending the first opening tag named tag and the next closing tag, and
\* the empty result when the text has no complete opening tag of exactly
\* that name followed by a closing tag.
C31_ExtractContentExact ==
    got.fn = "extract_tag_content" => got.value = ContentAsDocumented(given, "old")

\* the file attribute inside the opening tag of one <change> block
FileWithin(block) ==
    LET head == Substr(block, 0, Find(block, ">", 0))
        at == Find(head, "file=\"", 0)
    IN  IF at = npos THEN "" ELSE Substr(head, at + 6, Find(head, "\"", at + 6) - at - 6)

\* one block read by itself: every field from inside the block, "" if missing
ChangeWithin(block) ==
    [file |-> FileWithin(block),
     description |-> ContentAsDocumented(block, "description"),
     old_text |-> TrimRight(TrimLeft(ContentAsDocumented(block, "old"), {"\n"}), {"\n"}),
     new_text |-> TrimRight(TrimLeft(ContentAsDocumented(block, "new"), {"\n"}), {"\n"})]

RECURSIVE ChangesAsDocumented(_, _)
\* the blocks of a reply in order, each read by itself; a block naming no
\* file gives no Change
ChangesAsDocumented(reply, from) ==
    LET pos == Find(reply, "<change", from)
        close == Find(reply, "</change>", pos)
        c == ChangeWithin(Substr(reply, pos, close - pos))
    IN  IF pos = npos \/ close = npos THEN <<>>
        ELSE (IF c.file # "" THEN <<c>> ELSE <<>>) \o ChangesAsDocumented(reply, close + 1)

\* C32: parse_changes returns one Change per <change>...</change> block, in
\* response order, each Change's file, description, old text and new text
\* taken only from inside its own block.
C32_ChangeFieldsFromOwnBlock ==
    got.fn = "parse_changes" => got.value = ChangesAsDocumented(given, 0)

\* C33: in both programs every FailureTracker count stays between 0 and 2;
\* a count never decreases except by a clear in agent.cpp; and a command
\* whose count is 2 is not executed again (in code-agent.cpp never again, in
\* agent.cpp not before such a clear).
C33_TrackerCountsBounded ==
    [][/\ \A c \in DOMAIN failed_commands' : failed_commands'[c] \in 0..2
       /\ \A c \in DOMAIN failed_commands :
              \/ c \in DOMAIN failed_commands' /\ failed_commands'[c] >= failed_commands[c]
              \/ /\ pool.program = "agent.cpp" /\ pc = "input"
                 /\ agent_should_clear(ToLower(agent_user_message(last_input')))
       /\ ReplyStep =>
              \A c \in DOMAIN failed_commands :
                  failed_commands[c] = 2 => ~Popened(log', c)]_vars

\* code-agent.cpp: a command counted twice came again in a reply and no
\* shell was started for it
C33_Witness ==
    /\ pool.program = "code-agent.cpp"
    /\ \E c \in DOMAIN failed_commands :
           /\ failed_commands[c] = 2
           /\ last_response = "<run>" \o c \o "</run>"
           /\ ~Popened(log, c)
           /\ calls > 0

\* messages of a history that alternate user, assistant from a user message
Alternates(h) ==
    \A i \in 1..Len(h) : h[i] = (IF i % 2 = 1 THEN "user" ELSE "assistant")

\* C34: in agent.cpp, after every return of query_llm_chat the conversation
\* history holds at most 20 messages, has even length and alternates user,
\* assistant starting with a user message; a failed call (no content field)
\* leaves the history as it was.
C34_HistoryPairsCapped ==
    [][(ReplyStep /\ pool.program = "agent.cpp") =>
          /\ Len(conversation_history') <= 20
          /\ Len(conversation_history') % 2 = 0
          /\ Alternates(conversation_history')
          /\ last_response' = "" => conversation_history' = conversation_history]_vars

\* the eleventh call of one exchange has returned: 22 messages were cut to 20
C34_Witness ==
    /\ pool.program = "agent.cpp"
    /\ calls = 11
    /\ Len(conversation_history) = 20

\* the path a /project input names (code-agent.cpp 588-589)
ProjectArg(input) == TrimLeft(Substr(input, 8, Len(input)), {" "})

\* an input line that is a /project command naming a path
ProjectCommand(input) == Substr(input, 0, 8) = "/project" /\ ProjectArg(input) # ""

\* the path lies under /root/workspace
InsideDefault(path) == Under(Canon(path), DEFAULT_WORKSPACE)

\* C35: in code-agent.cpp '/project <path>' changes the ProjectRoot only when
\* path is inside /root/workspace, and otherwise prints 'Project must be in
\* /root/workspace' and leaves the ProjectRoot unchanged.
C35_ProjectStaysInWorkspace ==
    [][(CodeInputStep /\ ProjectCommand(last_input')) =>
          IF InsideDefault(ProjectArg(last_input'))
          THEN active_project_dir' = ProjectArg(last_input')
          ELSE /\ active_project_dir' = active_project_dir
               /\ printed' = "Project must be in /root/workspace"]_vars

\* the backslashes standing immediately before index i
RECURSIVE SlashesBefore(_, _)
SlashesBefore(body, i) ==
    IF i > 0 /\ Substr(body, i - 1, 1) = "\\" THEN 1 + SlashesBefore(body, i - 1) ELSE 0

\* the index of the first quote not made part of an escape pair, the length
\* of the body when there is none
FirstUnescapedQuote(body) ==
    LET c == {i \in 0..(Len(body) - 1) :
                 Substr(body, i, 1) = "\"" /\ SlashesBefore(body, i) % 2 = 0}
    IN  IF c = {} THEN Len(body) ELSE MinOf(c)

\* C36: for every string s, the content scan of '"content":"' + escape_json(s)
\* + '"' yields exactly s, and the scan of an answer stops at the first
\* unescaped quote: what stands after it adds nothing to the content.
C36_EscapeScanRoundTrip ==
    /\ got.fn = "escape_json, scan" => got.value = given
    /\ got.fn = "scan" =>
           got.value = scan_content("\"content\":\""
                                    \o Substr(given, 0, FirstUnescapedQuote(given)))

\* a string with a quote, a backslash or a line feed in it came back whole
C36_Witness ==
    /\ got.fn = "escape_json, scan"
    /\ Contains(given, "\\") /\ Contains(given, "\"") /\ Contains(given, "\n")
    /\ got.value = given

\* the well-formed <run> directives of each reply, left to right
RunsIn == [r \in AgentResponses \cup CodeResponses |-> ScanAll(r, "<run>", "</run>", 0)]

\* the line the loop at phase writes to the tool output when it handles run c
HandledRun(phase, c) ==
    IF pool.program = "agent.cpp" THEN "$ " \o c \o "\n" ELSE RunHead(phase, c)

RECURSIVE Occurrences(_, _, _)
\* how often pat stands in s from index from on
Occurrences(s, pat, from) ==
    LET at == Find(s, pat, from)
    IN  IF at = npos THEN 0 ELSE 1 + Occurrences(s, pat, at + Len(pat))

RECURSIVE StandInOrder(_, _, _)
\* the lines stand in out one after the other, from index from on
StandInOrder(out, lines, from) ==
    IF lines = <<>> THEN TRUE
    ELSE LET at == Find(out, Head(lines), from)
         IN  at # npos /\ StandInOrder(out, Tail(lines), at + Len(Head(lines)))

\* C37: every well-formed, non-nested <run>cmd</run> of a reply is handled
\* exactly once, in left-to-right order of appearance (the scan ending for
\* every reply, also one whose last opening tag is not closed).
C37_EveryRunHandledOnce ==
    [][ReplyStep =>
          LET runs == RunsIn[last_response']
              lines == [i \in 1..Len(runs) |-> HandledRun(pc, runs[i])]
          IN  /\ StandInOrder(tool_output', lines, 0)
              /\ \A i \in 1..Len(runs) :
                     Occurrences(tool_output', lines[i], 0)
                         = Cardinality({j \in 1..Len(runs) : runs[j] = runs[i]})]_vars

\* a file whose name contains ANALYSIS.md is on the disk
AnalysisWritten(files) == \E p \in DOMAIN files : Contains(p, "ANALYSIS.md")

\* C38: in code-agent.cpp /analyze reports 'ANALYSIS COMPLETE' only if a
\* change to a file whose name contains ANALYSIS.md was applied during that
\* analysis: no session starts with such a file, so one is then on the disk.
C38_CompleteOnlyWithReport ==
    [][(ReplyStep /\ pc = "analyze" /\ printed' = "ANALYSIS COMPLETE")
          => AnalysisWritten(fs')]_vars

\* the command string a List or Run directive of agent.cpp is counted under
KeyOf(d) == IF d.kind = "list" THEN "ls -la \"" \o d.arg \o "\"" ELSE d.arg

\* the List and Run directives of a plan
Commands(ds) == {i \in 1..Len(ds) : ds[i].kind \in {"list", "run"}}

\* what agent.cpp puts in the tool output for a List or Run it did not execute
SkippedText(d) ==
    (IF d.kind = "list" THEN "Directory " \o d.arg \o ":\n" ELSE "$ " \o d.arg \o "\n")
    \o "[Error: Command failed multiple times, skipping]\n"

\* C39: in agent.cpp the FailureTracker is keyed by the exact command string,
\* whatever the directive kind: a <list>P</list> is counted under 'ls -la "P"',
\* so once that string has two failures neither a <list>P</list> nor a
\* <run>ls -la "P"</run> is executed, and the count of a string changes only
\* when a directive of exactly that string is handled.
C39_KeyedByCommandString ==
    [][(ReplyStep /\ pool.program = "agent.cpp") =>
          /\ \A i \in Commands(StepPlan) :
                 Count(failed_commands, KeyOf(StepPlan[i])) >= 2 =>
                     /\ ~Popened(log', KeyOf(StepPlan[i]))
                     /\ Contains(tool_output', SkippedText(StepPlan[i]))
          /\ \A c \in DOMAIN failed_commands' :
                 (\A i \in Commands(StepPlan) : KeyOf(StepPlan[i]) # c) =>
                     Count(failed_commands', c) = Count(failed_commands, c)
          /\ \A c \in DOMAIN failed_commands' :
                 Count(failed_commands', c) > Count(failed_commands, c) => Popened(log', c)]_vars

\* the string 'ls -la "/nodir"' has failed twice as a listing or as a Run,
\* and the next listing of /nodir was not executed
C39_Witness ==
    /\ pool.program = "agent.cpp"
    /\ nread = 1 /\ calls = 3
    /\ last_response = "<list>/nodir</list>"
    /\ failed_commands["ls -la \"/nodir\""] = 2
    /\ tool_output = "Directory /nodir:\n[Error: Command failed multiple times, skipping]\n"
    /\ log = <<>>

=============================================================================
